---- MODULE Spec2Model ----
(***************************************************************************)
(* A model of solc-go: the compiler session (baseSolc: License, Version,   *)
(* CompileWithOptions, Close behind one sync.Mutex) and the import         *)
(* resolver (importResolver: resolveImports / resolveFileImports).         *)
(*                                                                         *)
(* The session part follows src/unnamed/part_001, the resolver part        *)
(* src/embedded.go lines 46-179.                                           *)
(***************************************************************************)
EXTENDS Integers, Sequences, FiniteSets, TLC

(***************************************************************************)
(* Bounds of the model.                                                    *)
(***************************************************************************)
\* number of goroutines sharing the one session
NumGoroutines == 2
\* total number of API calls the goroutines start on the session
MaxCalls == 2

(***************************************************************************)
(* Program constants.                                                      *)
(***************************************************************************)
\* newImportResolver: maxDepth: 50
maxDepth == 50

Goroutines == 1..NumGoroutines

(***************************************************************************)
(* Paths.  A path is the sequence of its slash-separated components, so    *)
(* "./lib/B.sol" is <<".", "lib", "B.sol">>.                               *)
(***************************************************************************)
\* the components of the model's paths whose first character is '.'
DotComponents == {".", "..", ".deps"}

\* strings.HasPrefix(importPath, ".")
HasPrefixDot(importPath) ==
  Len(importPath) > 0 /\ importPath[1] \in DotComponents

RECURSIVE CleanFrom(_, _)
\* filepath.Clean of a relative path, left to right: "." is dropped, ".."
\* removes the component before it unless there is none (or it is ".." too)
CleanFrom(out, rest) ==
  IF rest = << >> THEN out
  ELSE LET c == Head(rest) IN
       IF c = "." THEN CleanFrom(out, Tail(rest))
       ELSE IF c = ".." /\ Len(out) > 0 /\ out[Len(out)] # ".."
            THEN CleanFrom(SubSeq(out, 1, Len(out) - 1), Tail(rest))
            ELSE CleanFrom(Append(out, c), Tail(rest))

\* filepath.Clean: the empty result is "."
Clean(p) ==
  LET q == CleanFrom(<< >>, p) IN IF q = << >> THEN <<".">> ELSE q

\* filepath.Dir: everything but the last component, cleaned
Dir(p) == IF Len(p) <= 1 THEN <<".">> ELSE Clean(SubSeq(p, 1, Len(p) - 1))

\* filepath.Join(dir, p)
Join(dir, p) == Clean(dir \o p)

\* a resolveAbsolutePath that cleans the literal without the directory of
\* the importing file
resolveAbsolutePath_NoDir(importPath, currentFile) ==
  IF ~HasPrefixDot(importPath) THEN importPath
  ELSE Clean(importPath)

\* importResolver.resolveAbsolutePath
resolveAbsolutePath(importPath, currentFile) ==
  IF ~HasPrefixDot(importPath) THEN importPath
  ELSE Clean(Join(Dir(currentFile), importPath))

(***************************************************************************)
(* Source text.  The content of a file is the sequence of its statements;  *)
(* a statement is an import of one of the forms the pattern of             *)
(* extractImports matches, or other code.                                  *)
(***************************************************************************)
ImportForms == {"bare", "named", "star", "alias"}

Import(form, lit) == [kind |-> "import", form |-> form, path |-> lit]
Code == [kind |-> "code", form |-> "none", path |-> << >>]

RECURSIVE extractFrom(_)
extractFrom(stmts) ==
  IF stmts = << >> THEN << >>
  ELSE LET s == Head(stmts) IN
       IF s.kind = "import" /\ s.form \in ImportForms /\ s.path # << >>
       THEN <<s.path>> \o extractFrom(Tail(stmts))
       ELSE extractFrom(Tail(stmts))

\* importResolver.extractImports: the path literals of the import
\* statements, in source order
extractImports(sourceCode) == extractFrom(sourceCode)

(***************************************************************************)
(* The files a caller works with.  A world fixes the text of every file    *)
(* the caller's file system holds (lib) and the files the caller puts in   *)
(* Input.Sources itself (src0); the ImportCallback serves lib.             *)
(***************************************************************************)
\* largest number of import statements in one generated file
MaxImports == 2

fa == <<"a.sol">>
fb == <<"lib", "b.sol">>
fc == <<"lib", "c.sol">>

\* the import literals of the generated files: "./lib/b.sol", "../a.sol",
\* "./c.sol" and the package-style "lib/c.sol"
Literals ==
  { <<".", "lib", "b.sol">>, <<"..", "a.sol">>, <<".", "c.sol">>,
    <<"lib", "c.sol">> }

RECURSIVE SeqsUpTo(_, _)
SeqsUpTo(S, n) ==
  IF n = 0 THEN { << >> }
  ELSE LET shorter == SeqsUpTo(S, n - 1) IN
       shorter \cup { Append(q, x) : q \in shorter, x \in S }

\* a file of import statements followed by a contract
FileOf(lits) ==
  [i \in 1..Len(lits) |->
     Import(IF i = 1 THEN "bare" ELSE "named", lits[i])] \o <<Code>>

\* three files a.sol, lib/b.sol, lib/c.sol with every choice of imports
GraphWorlds ==
  { [lib |-> (fa :> FileOf(ia) @@ fb :> FileOf(ib) @@ fc :> FileOf(ic)),
     src0 |-> s0] :
      ia \in SeqsUpTo(Literals, MaxImports),
      ib \in SeqsUpTo(Literals, MaxImports),
      ic \in { << >>, <<(<<"..", "a.sol">>)>> },
      s0 \in { {fa}, {fa, fb} } }

\* c0.sol imports "./c1.sol", which imports "./c2.sol", ... : n files
ChainFile(i) == <<"c" \o ToString(i) \o ".sol">>
ChainWorld(n, s0) ==
  [lib |-> [p \in { ChainFile(i) : i \in 0..(n - 1) } |->
              LET i == CHOOSE j \in 0..(n - 1) : ChainFile(j) = p IN
              IF i = n - 1 THEN <<Code>>
              ELSE <<Import("bare", <<".", ChainFile(i + 1)[1]>>), Code>>],
   src0 |-> s0]

\* chains whose last file lies at depth maxDepth and at depth maxDepth + 1,
\* with the first file, or the first two, supplied by the caller
ChainWorlds ==
  { ChainWorld(n, s0) :
      n \in { maxDepth + 1, maxDepth + 2 },
      s0 \in { {ChainFile(0)}, {ChainFile(0), ChainFile(1)} } }

\* c0.sol imports "./c1.sol", ..., and the last file imports "./c0.sol"
\* again: a cycle of n files
RingWorld(n) ==
  [lib |-> [p \in { ChainFile(i) : i \in 0..(n - 1) } |->
              LET i == CHOOSE j \in 0..(n - 1) : ChainFile(j) = p IN
              <<Import("bare", <<".", ChainFile((i + 1) % n)[1]>>), Code>>],
   src0 |-> {ChainFile(0)}]

\* cycles whose back-edge is reached at depth maxDepth and maxDepth + 1
RingWorlds == { RingWorld(n) : n \in { maxDepth, maxDepth + 1 } }

\* the worlds of the shared-session specification: a cycle through the
\* callback, a file that cannot be found, and a file without imports
SessionWorlds ==
  { [lib |-> (fa :> FileOf(<< <<".", "lib", "b.sol">> >>)
              @@ fb :> FileOf(<< <<"..", "a.sol">> >>)), src0 |-> {fa}],
    [lib |-> (fa :> FileOf(<< <<".", "c.sol">> >>)), src0 |-> {fa}],
    [lib |-> (fa :> FileOf(<< >>)), src0 |-> {fa}] }

\* the ImportCallback of a world: the text of a file it holds, an error else
importCallback(w, url) ==
  IF url \in DOMAIN w.lib
  THEN [Contents |-> w.lib[url], Error |-> ""]
  ELSE [Contents |-> << >>, Error |-> "File not found"]

\* the Input.Sources a caller of the world builds
InitialSources(w) == [p \in w.src0 |-> [Content |-> w.lib[p]]]

(***************************************************************************)
(* State.                                                                  *)
(***************************************************************************)
VARIABLES
  world,            \* the caller's files and ImportCallback (never changes)
  sources,          \* Input.Sources of the *Input the callers pass
  mu,               \* baseSolc.mu: 0 when free, else the goroutine holding it
  closed,           \* baseSolc.closed
  ctx,              \* baseSolc.ctx     # nil
  isolate,          \* baseSolc.isolate # nil
  license,          \* baseSolc.license # nil
  pc,               \* where each goroutine is in its call
  options,          \* per goroutine: options != nil && options.ImportCallback != nil
  inputJSON,        \* per goroutine: the local inputJSON
  resolvedSources,  \* per goroutine: importResolver.resolvedSources
  contextStack,     \* per goroutine: importResolver.contextStack
  frames,           \* per goroutine: the active resolveFileImports calls
  rangeLeft,        \* per goroutine: keys the range of resolveImports still yields
  rerr,             \* per goroutine: the error resolveFileImports is returning
  cbPath,           \* per goroutine: the argument of the ImportCallback in flight
  ret,              \* per goroutine: what its last call returned
  call,             \* per goroutine: a record of its current (or last) call
  budget,           \* number of calls that may still be started
  ctxCloses,        \* number of ctx.Close() calls made
  isolateDisposes,  \* number of isolate.Dispose() calls made
  compileCalls,     \* number of calls of the engine's compile function
  passedCalls,      \* number of compile calls that got as far as the engine
  closeReturned,    \* some Close call has returned
  fault,            \* the engine was entered after its context was released
  env,              \* the remote server, the home directory and the disk
  cache,            \* the cache files ~/solc/<version>/soljson.js
  nv,               \* per caller: its NewWithVersion call
  nvBudget,         \* number of NewWithVersion calls that may still start
  embeddedVersions, \* the package variable embeddedVersions
  versions          \* what the last GetEmbeddedVersions call returned

sessVars == <<mu, closed, ctx, isolate, license>>
resVars == <<resolvedSources, contextStack, frames, rangeLeft, rerr, cbPath>>
histVars == <<ctxCloses, isolateDisposes, compileCalls, passedCalls,
              closeReturned, fault>>
artVars == <<env, cache, nv, nvBudget>>
embVars == <<embeddedVersions, versions>>
sessionVars == <<world, sources, sessVars, pc, options, inputJSON, resVars,
                 ret, call, budget, histVars>>
vars == <<sessionVars, artVars, embVars>>

(***************************************************************************)
(* Artifacts: the embedded table, the remote server and the cache          *)
(***************************************************************************)
NumCallers == 2
MaxResolutions == 2
Callers == 1..NumCallers

solc0830Binary == "soljson-v0.8.30+commit.73712a01.js (embedded)"
solc0821Binary == "soljson-v0.8.21+commit.d9974bed.js (embedded)"

\* the map literal that initializes the package variable embeddedVersions
EmbeddedTable ==
  ("0.8.30" :> solc0830Binary) @@ ("0.8.21" :> solc0821Binary)

getEmbeddedBinary(version) ==
  IF version \in DOMAIN embeddedVersions
  THEN [binary |-> embeddedVersions[version], exists |-> TRUE]
  ELSE [binary |-> "", exists |-> FALSE]

\* the releases of the remote list.json, and the body served for a file
Releases ==
  ("0.8.30" :> "soljson-v0.8.30+commit.73712a01.js")
    @@ ("0.8.20" :> "soljson-v0.8.20+commit.a1b79de6.js")
RemoteBody(filename) == filename \o " (downloaded)"

\* the versions callers ask for: embedded, released but not embedded, and
\* unknown to the remote list
Requested == {"0.8.30", "0.8.20", "0.4.0"}

\* a cache file that does not exist, and one with the given content
NoFile == [exists |-> FALSE, content |-> ""]
File(content) == [exists |-> TRUE, content |-> content]

\* how the remote answers the list and the artifact requests, whether
\* os.UserHomeDir works, and what the disk does with MkdirAll and WriteFile
Envs ==
  [catalog : {"ok", "transport error", "HTTP 500"},
   artifact : {"ok", "HTTP 404"},
   home : BOOLEAN,
   disk : {"ok", "read-only", "full"}]

\* artifacts that are not a compiler: a script cut short, which the engine
\* cannot run, and a script that runs but defines no Module
CutShort == "soljson-v0.8.20+commit.a1b79de6.js (cut sho"
NoModule == "// nothing here"

\* the cache as earlier runs may have left it
InitialCaches ==
  { ("0.8.30" :> a) @@ ("0.8.20" :> b) @@ ("0.4.0" :> c) :
      a \in {NoFile, File("soljson.js of an earlier run")},
      b \in {NoFile, File(""), File(CutShort), File(NoModule),
              File(RemoteBody(Releases["0.8.20"]))},
      c \in {NoFile, File("soljson-v0.4.0 (cached)")} }

\* a caller that is not in a NewWithVersion call, and the call it starts:
\* the requests and cache accesses it makes are counted, and the cache file
\* of the version as it is when the call starts is kept
IdleCaller ==
  [pc |-> "idle", version |-> "", filename |-> "", content |-> "",
   origin |-> "none", out |-> "none", err |-> "none", before |-> NoFile,
   catalogRequests |-> 0,
   downloadRequests |-> 0, cacheReads |-> 0, cacheWrites |-> 0,
   isolate |-> FALSE, ctx |-> FALSE, isolates |-> 0, contexts |-> 0,
   ctxCloses |-> 0, isolateDisposes |-> 0, typ |-> ""]
NewCaller(version) ==
  [IdleCaller EXCEPT !.version = version, !.before = cache[version]]

NoErr == [kind |-> "nil", file |-> << >>]
Err(k, f) == [kind |-> k, file |-> f]

NoRet == [op |-> "none", out |-> "none", err |-> "none"]

\* a nil *Output, and the *Output with the given fields
NilOutput == [nil |-> TRUE, Errors |-> << >>, Contracts |-> << >>]
OutputOf(errors, contracts) ==
  [nil |-> FALSE, Errors |-> errors, Contracts |-> contracts]

\* diagnostics as the compiler reports them
Diagnostic(sev, msg) == [severity |-> sev, message |-> msg]
PragmaError ==
  Diagnostic("error", "Source file requires different compiler version")
UnusedWarning == Diagnostic("warning", "Unused local variable")

\* no call of the compile function has returned
NoResult == [kind |-> "none"]

\* what compileFunc.Call can give: an exception, or a string, which is the
\* compiler's standard-JSON output (its keys are optional) or something
\* that is not JSON
EngineResults ==
  { [kind |-> "exception"],
    [kind |-> "string", json |-> FALSE],
    [kind |-> "string", json |-> TRUE,
     doc |-> [contracts |-> <<"One">>, sources |-> <<"One.sol">>]],
    [kind |-> "string", json |-> TRUE,
     doc |-> [errors |-> <<PragmaError>>, sources |-> <<"One.sol">>]],
    [kind |-> "string", json |-> TRUE,
     doc |-> [errors |-> <<UnusedWarning, PragmaError>>,
              contracts |-> <<"One">>]] }

\* what s.license.Call and s.version.Call can give: an exception, or the
\* string of the compiler
QueryResults(text) ==
  { [kind |-> "exception"], [kind |-> "string", text |-> text] }

\* json.Unmarshal of a string into &Output{}: the keys "errors" and
\* "contracts" fill Errors and Contracts, a missing key leaves the field
\* empty, other keys are dropped
Unmarshal(r) ==
  IF ~r.json
  THEN [err |-> TRUE, output |-> NilOutput]
  ELSE [err |-> FALSE,
        output |->
          OutputOf(IF "errors" \in DOMAIN r.doc THEN r.doc.errors ELSE << >>,
                   IF "contracts" \in DOMAIN r.doc THEN r.doc.contracts
                   ELSE << >>)]
NoCall ==
  [op |-> "none", engine |-> 0, cb |-> << >>, cbErr |-> FALSE,
   passed |-> FALSE, before |-> << >>, runStart |-> << >>,
   steps |-> 0, afterClose |-> FALSE, inputNil |-> FALSE,
   arg |-> {}, result |-> NoResult, output |-> NilOutput,
   nested |-> "none", nestedOut |-> "none"]

\* the record of a call that starts now: the engine calls it makes, the
\* ImportCallback invocations of its resolver run (path and depth), whether
\* one of them reported an error, whether the call got past validation,
\* the closed check and import resolution, Sources when the call and when
\* its resolveImports started, the steps its resolver run has taken,
\* whether a Close had returned before, whether its input is nil, what it
\* passed to the compile function and what the function gave it, the
\* *Output it returns, and the call its ImportCallback made on the same
\* session with what that call returned
NewCall(op) ==
  [op |-> op, engine |-> 0, cb |-> << >>, cbErr |-> FALSE,
   passed |-> FALSE, before |-> sources, runStart |-> sources,
   steps |-> 0, afterClose |-> closeReturned, inputNil |-> FALSE,
   arg |-> {}, result |-> NoResult, output |-> NilOutput,
   nested |-> "none", nestedOut |-> "none"]

\* json.Marshal of the input: the entries of Sources as they are when read
Marshal(src) == { [path |-> p, content |-> src[p].Content] : p \in DOMAIN src }

InitSession ==
  /\ mu = 0
  /\ closed = FALSE
  /\ ctx = TRUE
  /\ isolate = TRUE
  /\ pc = [t \in Goroutines |-> "idle"]
  /\ options = [t \in Goroutines |-> FALSE]
  /\ inputJSON = [t \in Goroutines |-> {}]
  /\ resolvedSources = [t \in Goroutines |-> {}]
  /\ contextStack = [t \in Goroutines |-> << >>]
  /\ frames = [t \in Goroutines |-> << >>]
  /\ rangeLeft = [t \in Goroutines |-> {}]
  /\ rerr = [t \in Goroutines |-> NoErr]
  /\ cbPath = [t \in Goroutines |-> << >>]
  /\ ret = [t \in Goroutines |-> NoRet]
  /\ call = [t \in Goroutines |-> NoCall]
  /\ ctxCloses = 0
  /\ isolateDisposes = 0
  /\ compileCalls = 0
  /\ passedCalls = 0
  /\ closeReturned = FALSE
  /\ fault = FALSE

\* nobody constructs a session
\* the embedded table as the package initializes it; GetEmbeddedVersions
\* not yet called
InitEmbedded ==
  /\ embeddedVersions = EmbeddedTable
  /\ versions = [returned |-> FALSE, list |-> << >>]

InitNoArtifact ==
  /\ InitEmbedded
  /\ env = [catalog |-> "ok", artifact |-> "ok", home |-> TRUE,
            disk |-> "ok"]
  /\ cache = [v \in Requested |-> NoFile]
  /\ nv = [c \in Callers |-> IdleCaller]
  /\ nvBudget = 0

\* a session shared by the goroutines, right after New returned it
Init ==
  /\ world \in SessionWorlds
  /\ sources = InitialSources(world)
  /\ budget = MaxCalls
  /\ license \in BOOLEAN
  /\ InitSession
  /\ InitNoArtifact

\* one call of one goroutine on any of the generated inputs
InitResolver ==
  /\ world \in GraphWorlds \cup ChainWorlds
  /\ sources = InitialSources(world)
  /\ budget = 1
  /\ license = TRUE
  /\ InitSession
  /\ InitNoArtifact

\* callers about to construct sessions with NewWithVersion, in any state of
\* the remote, the disk and the cache
InitArtifact ==
  /\ InitEmbedded
  /\ env \in Envs
  /\ cache \in InitialCaches
  /\ nv = [c \in Callers |-> IdleCaller]
  /\ nvBudget = MaxResolutions
  /\ world = [lib |-> (fa :> FileOf(<< >>)), src0 |-> {fa}]
  /\ sources = InitialSources(world)
  /\ budget = 0
  /\ license = TRUE
  /\ InitSession

(***************************************************************************)
(* sync.Mutex                                                              *)
(***************************************************************************)
\* a Lock that does not wait for the holder
Lock_NoWait(t) == mu' = t

\* s.mu.Lock(): blocks while another goroutine holds the mutex
\* a Lock that lets the holder in again
Lock_Reentrant(t) == mu \in {0, t} /\ mu' = t

Lock(t) == mu = 0 /\ mu' = t

\* the deferred s.mu.Unlock()
Unlock(t) == mu' = 0

\* a call of op returns (out, err): the goroutine is idle again
Return(t, op, out, err) ==
  /\ ret' = [ret EXCEPT ![t] = [op |-> op, out |-> out, err |-> err]]
  /\ pc' = [pc EXCEPT ![t] = "idle"]

\* a goroutine that is idle starts a call of op
Start(t, op) ==
  /\ pc[t] = "idle"
  /\ budget > 0
  /\ budget' = budget - 1
  /\ call' = [call EXCEPT ![t] = NewCall(op)]

\* the engine is entered: its context must still be there
Enter(t) ==
  /\ fault' = (fault \/ ~ctx \/ ~isolate)
  /\ call' = [call EXCEPT ![t].engine = @ + 1]

(***************************************************************************)
(* baseSolc.License                                                        *)
(***************************************************************************)
LicenseBegin(t) ==
  /\ Start(t, "License")
  /\ IF ~license
     THEN Return(t, "License", "", "nil")
     ELSE pc' = [pc EXCEPT ![t] = "license_lock"] /\ UNCHANGED ret
  /\ UNCHANGED <<embVars, artVars, world, sources, sessVars, options, inputJSON, resVars,
                 histVars>>

LicenseLock(t) ==
  /\ pc[t] = "license_lock"
  /\ Lock(t)
  /\ pc' = [pc EXCEPT ![t] = "license_locked"]
  /\ UNCHANGED <<embVars, artVars, world, sources, closed, ctx, isolate, license, options,
                 inputJSON, resVars, ret, call, budget, histVars>>

\* if s.closed { return "" }, else s.license.Call(...) is entered
LicenseCall(t) ==
  /\ pc[t] = "license_locked"
  /\ IF closed
     THEN /\ Return(t, "License", "", "nil")
          /\ Unlock(t)
          /\ UNCHANGED <<call, fault>>
     ELSE /\ pc' = [pc EXCEPT ![t] = "license_call"]
          /\ Enter(t)
          /\ UNCHANGED <<ret, mu>>
  /\ UNCHANGED <<embVars, artVars, world, sources, closed, ctx, isolate, license, options,
                 inputJSON, resVars, budget, ctxCloses, isolateDisposes,
                 compileCalls, passedCalls, closeReturned>>

\* a License that hands the failure of the engine call to its caller
LicenseReturn_Raise(t) ==
  /\ pc[t] = "license_call"
  /\ \E r \in QueryResults("license text") :
       /\ call' = [call EXCEPT ![t].result = r]
       /\ IF r.kind = "exception"
          THEN Return(t, "License", "", "license call failed")
          ELSE Return(t, "License", r.text, "nil")
  /\ Unlock(t)
  /\ UNCHANGED <<embVars, artVars, world, sources, closed, ctx, isolate, license, options,
                 inputJSON, resVars, budget, histVars>>

\* s.license.Call returns a value, or an error
LicenseReturn(t) ==
  /\ pc[t] = "license_call"
  /\ \E r \in QueryResults("license text") :
       /\ call' = [call EXCEPT ![t].result = r]
       /\ Return(t, "License",
                 IF r.kind = "exception" THEN "" ELSE r.text, "nil")
  /\ Unlock(t)
  /\ UNCHANGED <<embVars, artVars, world, sources, closed, ctx, isolate, license, options,
                 inputJSON, resVars, budget, histVars>>

(***************************************************************************)
(* baseSolc.Version                                                        *)
(***************************************************************************)
\* s.version is bound by every successful init, so the nil test never hits
VersionBegin(t) ==
  /\ Start(t, "Version")
  /\ pc' = [pc EXCEPT ![t] = "version_lock"]
  /\ UNCHANGED <<embVars, artVars, world, sources, sessVars, options, inputJSON, resVars, ret,
                 histVars>>

VersionLock(t) ==
  /\ pc[t] = "version_lock"
  /\ Lock(t)
  /\ pc' = [pc EXCEPT ![t] = "version_locked"]
  /\ UNCHANGED <<embVars, artVars, world, sources, closed, ctx, isolate, license, options,
                 inputJSON, resVars, ret, call, budget, histVars>>

VersionCall(t) ==
  /\ pc[t] = "version_locked"
  /\ IF closed
     THEN /\ Return(t, "Version", "", "nil")
          /\ Unlock(t)
          /\ UNCHANGED <<call, fault>>
     ELSE /\ pc' = [pc EXCEPT ![t] = "version_call"]
          /\ Enter(t)
          /\ UNCHANGED <<ret, mu>>
  /\ UNCHANGED <<embVars, artVars, world, sources, closed, ctx, isolate, license, options,
                 inputJSON, resVars, budget, ctxCloses, isolateDisposes,
                 compileCalls, passedCalls, closeReturned>>

\* s.version.Call returns a value, or an error
VersionReturn(t) ==
  /\ pc[t] = "version_call"
  /\ \E r \in QueryResults("version text") :
       /\ call' = [call EXCEPT ![t].result = r]
       /\ Return(t, "Version",
                 IF r.kind = "exception" THEN "" ELSE r.text, "nil")
  /\ Unlock(t)
  /\ UNCHANGED <<embVars, artVars, world, sources, closed, ctx, isolate, license, options,
                 inputJSON, resVars, budget, histVars>>

(***************************************************************************)
(* baseSolc.Close and baseSolc.cleanup                                     *)
(***************************************************************************)
CloseBegin(t) ==
  /\ Start(t, "Close")
  /\ pc' = [pc EXCEPT ![t] = "close_lock"]
  /\ UNCHANGED <<embVars, artVars, world, sources, sessVars, options, inputJSON, resVars, ret,
                 histVars>>

\* Close entering its body without taking the mutex
CloseLock_NoMutex(t) ==
  /\ pc[t] = "close_lock"
  /\ pc' = [pc EXCEPT ![t] = "close_locked"]
  /\ UNCHANGED <<embVars, artVars, world, sources, sessVars, options, inputJSON, resVars, ret,
                 call, budget, histVars>>

CloseLock(t) ==
  /\ pc[t] = "close_lock"
  /\ Lock(t)
  /\ pc' = [pc EXCEPT ![t] = "close_locked"]
  /\ UNCHANGED <<embVars, artVars, world, sources, closed, ctx, isolate, license, options,
                 inputJSON, resVars, ret, call, budget, histVars>>

\* s.closed = true; return nil
CloseDone(t) ==
  /\ closed' = TRUE
  /\ closeReturned' = TRUE
  /\ Return(t, "Close", "none", "nil")
  /\ Unlock(t)

\* cleanup from its second statement on: if s.isolate != nil, Dispose is
\* entered; else cleanup returns and Close finishes
cleanupIsolate(t) ==
  IF isolate
  THEN /\ pc' = [pc EXCEPT ![t] = "isolate_dispose"]
       /\ isolateDisposes' = isolateDisposes + 1
       /\ UNCHANGED <<closed, closeReturned, ret, mu>>
  ELSE /\ CloseDone(t)
       /\ UNCHANGED isolateDisposes

\* if s.closed { return nil }, else cleanup: if s.ctx != nil, s.ctx.Close()
\* is entered
CloseCheck(t) ==
  /\ pc[t] = "close_locked"
  /\ IF closed
     THEN /\ Return(t, "Close", "none", "nil")
          /\ Unlock(t)
          /\ UNCHANGED <<closed, closeReturned, ctxCloses, isolateDisposes>>
     ELSE IF ctx
          THEN /\ pc' = [pc EXCEPT ![t] = "ctx_close"]
               /\ ctxCloses' = ctxCloses + 1
               /\ UNCHANGED <<closed, closeReturned, ret, mu,
                              isolateDisposes>>
          ELSE /\ cleanupIsolate(t)
               /\ UNCHANGED ctxCloses
  /\ UNCHANGED <<embVars, artVars, world, sources, ctx, isolate, license, options, inputJSON,
                 resVars, call, budget, compileCalls, passedCalls, fault>>

\* s.ctx.Close() returns; s.ctx = nil
CleanupCtx(t) ==
  /\ pc[t] = "ctx_close"
  /\ ctx' = FALSE
  /\ cleanupIsolate(t)
  /\ UNCHANGED <<embVars, artVars, world, sources, isolate, license, options, inputJSON,
                 resVars, call, budget, ctxCloses, compileCalls, passedCalls,
                 fault>>

\* s.isolate.Dispose() returns; s.isolate = nil; cleanup returns
CleanupIsolate(t) ==
  /\ pc[t] = "isolate_dispose"
  /\ isolate' = FALSE
  /\ CloseDone(t)
  /\ UNCHANGED <<embVars, artVars, world, sources, ctx, license, options, inputJSON, resVars,
                 call, budget, ctxCloses, isolateDisposes, compileCalls,
                 passedCalls, fault>>

(***************************************************************************)
(* importResolver                                                          *)
(***************************************************************************)
\* resolveFileImports without the test of resolvedSources
resolveFileImports_NoVisited(t, src, fileName, depth, fr) ==
  IF depth > maxDepth
  THEN /\ rerr' = [rerr EXCEPT ![t] = Err("depth", fileName)]
       /\ pc' = [pc EXCEPT ![t] = "unwind"]
       /\ frames' = [frames EXCEPT ![t] = fr]
       /\ UNCHANGED <<resolvedSources, contextStack>>
  ELSE IF fileName \notin DOMAIN src
  THEN /\ rerr' = [rerr EXCEPT ![t] = Err("not found", fileName)]
       /\ pc' = [pc EXCEPT ![t] = "unwind"]
       /\ frames' = [frames EXCEPT ![t] = fr]
       /\ UNCHANGED <<resolvedSources, contextStack>>
  ELSE /\ resolvedSources' = [resolvedSources EXCEPT ![t] = @ \cup {fileName}]
       /\ contextStack' = [contextStack EXCEPT ![t] = Append(@, fileName)]
       /\ frames' = [frames EXCEPT ![t] =
            Append(fr, [fileName |-> fileName, depth |-> depth,
                        imports |-> extractImports(src[fileName].Content),
                        i |-> 1])]
       /\ pc' = [pc EXCEPT ![t] = "file"]
       /\ UNCHANGED rerr

\* a resolveFileImports whose limit excludes maxDepth itself
resolveFileImports_Exclusive(t, src, fileName, depth, fr) ==
  IF depth >= maxDepth
  THEN /\ rerr' = [rerr EXCEPT ![t] = Err("depth", fileName)]
       /\ pc' = [pc EXCEPT ![t] = "unwind"]
       /\ frames' = [frames EXCEPT ![t] = fr]
       /\ UNCHANGED <<resolvedSources, contextStack>>
  ELSE IF fileName \in resolvedSources[t]
  THEN /\ pc' = [pc EXCEPT ![t] = IF fr = << >> THEN "range" ELSE "file"]
       /\ frames' = [frames EXCEPT ![t] = fr]
       /\ UNCHANGED <<resolvedSources, contextStack, rerr>>
  ELSE IF fileName \notin DOMAIN src
  THEN /\ rerr' = [rerr EXCEPT ![t] = Err("not found", fileName)]
       /\ pc' = [pc EXCEPT ![t] = "unwind"]
       /\ frames' = [frames EXCEPT ![t] = fr]
       /\ UNCHANGED <<resolvedSources, contextStack>>
  ELSE /\ resolvedSources' = [resolvedSources EXCEPT ![t] = @ \cup {fileName}]
       /\ contextStack' = [contextStack EXCEPT ![t] = Append(@, fileName)]
       /\ frames' = [frames EXCEPT ![t] =
            Append(fr, [fileName |-> fileName, depth |-> depth,
                        imports |-> extractImports(src[fileName].Content),
                        i |-> 1])]
       /\ pc' = [pc EXCEPT ![t] = "file"]
       /\ UNCHANGED rerr

\* a resolveFileImports that looks at the visited set before the depth
resolveFileImports_VisitedFirst(t, src, fileName, depth, fr) ==
  IF fileName \in resolvedSources[t]
  THEN /\ pc' = [pc EXCEPT ![t] = IF fr = << >> THEN "range" ELSE "file"]
       /\ frames' = [frames EXCEPT ![t] = fr]
       /\ UNCHANGED <<resolvedSources, contextStack, rerr>>
  ELSE IF depth > maxDepth
  THEN /\ rerr' = [rerr EXCEPT ![t] = Err("depth", fileName)]
       /\ pc' = [pc EXCEPT ![t] = "unwind"]
       /\ frames' = [frames EXCEPT ![t] = fr]
       /\ UNCHANGED <<resolvedSources, contextStack>>
  ELSE IF fileName \notin DOMAIN src
  THEN /\ rerr' = [rerr EXCEPT ![t] = Err("not found", fileName)]
       /\ pc' = [pc EXCEPT ![t] = "unwind"]
       /\ frames' = [frames EXCEPT ![t] = fr]
       /\ UNCHANGED <<resolvedSources, contextStack>>
  ELSE /\ resolvedSources' = [resolvedSources EXCEPT ![t] = @ \cup {fileName}]
       /\ contextStack' = [contextStack EXCEPT ![t] = Append(@, fileName)]
       /\ frames' = [frames EXCEPT ![t] =
            Append(fr, [fileName |-> fileName, depth |-> depth,
                        imports |-> extractImports(src[fileName].Content),
                        i |-> 1])]
       /\ pc' = [pc EXCEPT ![t] = "file"]
       /\ UNCHANGED rerr

\* resolveFileImports(input, fileName, depth) is called with the Sources
\* src, from the call chain fr (empty when resolveImports calls): the code
\* from its first line to the extraction of the imports
resolveFileImports(t, src, fileName, depth, fr) ==
  IF depth > maxDepth
  THEN /\ rerr' = [rerr EXCEPT ![t] = Err("depth", fileName)]
       /\ pc' = [pc EXCEPT ![t] = "unwind"]
       /\ frames' = [frames EXCEPT ![t] = fr]
       /\ UNCHANGED <<resolvedSources, contextStack>>
  ELSE IF fileName \in resolvedSources[t]
  THEN /\ pc' = [pc EXCEPT ![t] = IF fr = << >> THEN "range" ELSE "file"]
       /\ frames' = [frames EXCEPT ![t] = fr]
       /\ UNCHANGED <<resolvedSources, contextStack, rerr>>
  ELSE IF fileName \notin DOMAIN src
  THEN /\ rerr' = [rerr EXCEPT ![t] = Err("not found", fileName)]
       /\ pc' = [pc EXCEPT ![t] = "unwind"]
       /\ frames' = [frames EXCEPT ![t] = fr]
       /\ UNCHANGED <<resolvedSources, contextStack>>
  ELSE /\ resolvedSources' = [resolvedSources EXCEPT ![t] = @ \cup {fileName}]
       /\ contextStack' = [contextStack EXCEPT ![t] = Append(@, fileName)]
       /\ frames' = [frames EXCEPT ![t] =
            Append(fr, [fileName |-> fileName, depth |-> depth,
                        imports |-> extractImports(src[fileName].Content),
                        i |-> 1])]
       /\ pc' = [pc EXCEPT ![t] = "file"]
       /\ UNCHANGED rerr

\* the deferred function of resolveFileImports
popContext(stack) ==
  IF Len(stack) > 0 THEN SubSeq(stack, 1, Len(stack) - 1) ELSE stack

\* newImportResolver(callback) and the start of resolveImports: the range
\* over input.Sources begins
resolveImports(t) ==
  /\ resolvedSources' = [resolvedSources EXCEPT ![t] = {}]
  /\ contextStack' = [contextStack EXCEPT ![t] = << >>]
  /\ frames' = [frames EXCEPT ![t] = << >>]
  /\ rerr' = [rerr EXCEPT ![t] = NoErr]
  /\ rangeLeft' = [rangeLeft EXCEPT ![t] = DOMAIN sources]
  /\ call' = [call EXCEPT ![t].runStart = sources]
  /\ pc' = [pc EXCEPT ![t] = "range"]

\* one iteration of the range of resolveImports, in any order of the keys;
\* when no key is left, resolveImports returns (input, nil).  A key inserted
\* during the range may be yielded too: it is in resolvedSources by then,
\* so that iteration changes nothing and is left to stuttering.
RangeNext(t) ==
  /\ pc[t] = "range"
  /\ IF rangeLeft[t] = {}
     THEN /\ pc' = [pc EXCEPT ![t] = "resolved"]
          /\ UNCHANGED resVars
     ELSE \E fileName \in rangeLeft[t] :
            /\ rangeLeft' = [rangeLeft EXCEPT ![t] = @ \ {fileName}]
            /\ resolveFileImports(t, sources, fileName, 0, << >>)
            /\ UNCHANGED cbPath
  /\ call' = [call EXCEPT ![t].steps = @ + 1]
  /\ UNCHANGED <<embVars, artVars, world, sources, sessVars, options, inputJSON, ret, budget,
                 histVars>>

\* the loop invoking the ImportCallback for every import, also for one that
\* is a key of Sources already
FileNext_AlwaysCallback(t) ==
  /\ pc[t] = "file"
  /\ LET n == Len(frames[t])
         top == frames[t][n]
     IN IF top.i > Len(top.imports)
        THEN /\ frames' = [frames EXCEPT ![t] = SubSeq(@, 1, n - 1)]
             /\ contextStack' = [contextStack EXCEPT ![t] = popContext(@)]
             /\ pc' = [pc EXCEPT ![t] = IF n = 1 THEN "range" ELSE "file"]
             /\ call' = [call EXCEPT ![t].steps = @ + 1]
             /\ UNCHANGED <<resolvedSources, rerr, cbPath>>
        ELSE LET resolvedPath ==
                   resolveAbsolutePath(top.imports[top.i], top.fileName)
                 fr == [frames[t] EXCEPT ![n].i = @ + 1]
             IN /\ cbPath' = [cbPath EXCEPT ![t] = resolvedPath]
                /\ frames' = [frames EXCEPT ![t] = fr]
                /\ call' = [call EXCEPT
                     ![t].steps = @ + 1,
                     ![t].cb = Append(@, [path |-> resolvedPath,
                                          depth |-> top.depth + 1,
                                          literal |-> top.imports[top.i],
                                          from |-> top.fileName])]
                /\ pc' = [pc EXCEPT ![t] = "callback"]
                /\ UNCHANGED <<resolvedSources, contextStack, rerr>>
  /\ UNCHANGED <<embVars, artVars, world, sources, sessVars, options, inputJSON, rangeLeft,
                 ret, budget, histVars>>

\* the loop over the imports of the innermost file: past the last import the
\* call returns nil; an import that is a key of Sources is recursed into;
\* for any other the ImportCallback is invoked
FileNext(t) ==
  /\ pc[t] = "file"
  /\ LET n == Len(frames[t])
         top == frames[t][n]
     IN IF top.i > Len(top.imports)
        THEN /\ frames' = [frames EXCEPT ![t] = SubSeq(@, 1, n - 1)]
             /\ contextStack' = [contextStack EXCEPT ![t] = popContext(@)]
             /\ pc' = [pc EXCEPT ![t] = IF n = 1 THEN "range" ELSE "file"]
             /\ call' = [call EXCEPT ![t].steps = @ + 1]
             /\ UNCHANGED <<resolvedSources, rerr, cbPath>>
        ELSE LET resolvedPath ==
                   resolveAbsolutePath(top.imports[top.i], top.fileName)
                 fr == [frames[t] EXCEPT ![n].i = @ + 1]
             IN IF resolvedPath \in DOMAIN sources
                THEN /\ resolveFileImports(t, sources, resolvedPath,
                                           top.depth + 1, fr)
                     /\ call' = [call EXCEPT ![t].steps = @ + 1]
                     /\ UNCHANGED cbPath
                ELSE /\ cbPath' = [cbPath EXCEPT ![t] = resolvedPath]
                     /\ frames' = [frames EXCEPT ![t] = fr]
                     /\ call' = [call EXCEPT
                          ![t].steps = @ + 1,
                          ![t].cb = Append(@, [path |-> resolvedPath,
                                               depth |-> top.depth + 1,
                                               literal |-> top.imports[top.i],
                                               from |-> top.fileName])]
                     /\ pc' = [pc EXCEPT ![t] = "callback"]
                     /\ UNCHANGED <<resolvedSources, contextStack, rerr>>
  /\ UNCHANGED <<embVars, artVars, world, sources, sessVars, options, inputJSON, rangeLeft,
                 ret, budget, histVars>>

\* the fetched file stored but not recursed into
CallbackReturn_NoRecurse(t) ==
  /\ pc[t] = "callback"
  /\ LET result == importCallback(world, cbPath[t])
     IN IF result.Error # ""
        THEN /\ rerr' = [rerr EXCEPT ![t] = Err("import", cbPath[t])]
             /\ call' = [call EXCEPT ![t].cbErr = TRUE,
                                      ![t].steps = @ + 1]
             /\ pc' = [pc EXCEPT ![t] = "unwind"]
             /\ UNCHANGED sources
        ELSE /\ sources' =
                  [p \in DOMAIN sources \cup {cbPath[t]} |->
                     IF p = cbPath[t] THEN [Content |-> result.Contents]
                     ELSE sources[p]]
             /\ pc' = [pc EXCEPT ![t] = "file"]
             /\ call' = [call EXCEPT ![t].steps = @ + 1]
             /\ UNCHANGED rerr
  /\ UNCHANGED <<embVars, artVars, world, sessVars, options, inputJSON, resolvedSources,
                 contextStack, frames, rangeLeft, cbPath, ret, budget,
                 histVars>>

\* the ImportCallback returns: an error ends the run, contents are stored
\* under the resolved path and recursed into
CallbackReturn(t) ==
  /\ pc[t] = "callback"
  /\ LET result == importCallback(world, cbPath[t])
         top == frames[t][Len(frames[t])]
     IN IF result.Error # ""
        THEN /\ rerr' = [rerr EXCEPT ![t] = Err("import", cbPath[t])]
             /\ call' = [call EXCEPT ![t].cbErr = TRUE,
                                      ![t].steps = @ + 1]
             /\ pc' = [pc EXCEPT ![t] = "unwind"]
             /\ UNCHANGED <<sources, resolvedSources, contextStack, frames>>
        ELSE /\ sources' =
                  [p \in DOMAIN sources \cup {cbPath[t]} |->
                     IF p = cbPath[t] THEN [Content |-> result.Contents]
                     ELSE sources[p]]
             /\ resolveFileImports(t, sources', cbPath[t], top.depth + 1,
                                   frames[t])
             /\ call' = [call EXCEPT ![t].steps = @ + 1]
  /\ UNCHANGED <<embVars, artVars, world, sessVars, options, inputJSON, rangeLeft, cbPath, ret,
                 budget, histVars>>

\* an error return that skips the deferred pop of the context stack
Unwind_NoPop(t) ==
  /\ pc[t] = "unwind"
  /\ IF frames[t] = << >>
     THEN /\ pc' = [pc EXCEPT ![t] = "resolved"]
          /\ UNCHANGED <<frames, contextStack>>
     ELSE /\ frames' = [frames EXCEPT ![t] = SubSeq(@, 1, Len(@) - 1)]
          /\ UNCHANGED <<pc, contextStack>>
  /\ call' = [call EXCEPT ![t].steps = @ + 1]
  /\ UNCHANGED <<embVars, artVars, world, sources, sessVars, options, inputJSON,
                 resolvedSources, rangeLeft, rerr, cbPath, ret, budget,
                 histVars>>

\* an error travels up: each resolveFileImports on the way returns it (its
\* deferred function pops the context stack), then resolveImports does
Unwind(t) ==
  /\ pc[t] = "unwind"
  /\ IF frames[t] = << >>
     THEN /\ pc' = [pc EXCEPT ![t] = "resolved"]
          /\ UNCHANGED <<frames, contextStack>>
     ELSE /\ frames' = [frames EXCEPT ![t] = SubSeq(@, 1, Len(@) - 1)]
          /\ contextStack' = [contextStack EXCEPT ![t] = popContext(@)]
          /\ UNCHANGED pc
  /\ call' = [call EXCEPT ![t].steps = @ + 1]
  /\ UNCHANGED <<embVars, artVars, world, sources, sessVars, options, inputJSON,
                 resolvedSources, rangeLeft, rerr, cbPath, ret, budget,
                 histVars>>

(***************************************************************************)
(* baseSolc.CompileWithOptions                                             *)
(***************************************************************************)
\* CompileWithOptions without the test of input == nil
CompileBegin_NoNilCheck(t) ==
  /\ pc[t] = "idle"
  /\ budget > 0
  /\ budget' = budget - 1
  /\ \E inputNil \in BOOLEAN, callback \in BOOLEAN :
       /\ call' = [call EXCEPT ![t] =
                     [NewCall("Compile") EXCEPT !.inputNil = inputNil]]
       /\ options' = [options EXCEPT ![t] = callback]
       /\ pc' = [pc EXCEPT ![t] = "marshal"]
       /\ UNCHANGED ret
  /\ UNCHANGED <<embVars, artVars, world, sources, sessVars, inputJSON, resVars, histVars>>

\* the call starts, with a nil or non-nil input and with or without an
\* ImportCallback: a nil input is refused at once
CompileBegin(t) ==
  /\ pc[t] = "idle"
  /\ budget > 0
  /\ budget' = budget - 1
  /\ \E inputNil \in BOOLEAN, callback \in BOOLEAN :
       /\ call' = [call EXCEPT ![t] =
                     [NewCall("Compile") EXCEPT !.inputNil = inputNil]]
       /\ options' = [options EXCEPT ![t] = callback]
       /\ IF inputNil
          THEN Return(t, "Compile", "nil", "input cannot be nil")
          ELSE pc' = [pc EXCEPT ![t] = "marshal"] /\ UNCHANGED ret
  /\ UNCHANGED <<embVars, artVars, world, sources, sessVars, inputJSON, resVars, histVars>>

\* inputJSON, err := json.Marshal(input), before the mutex is taken
CompileMarshal(t) ==
  /\ pc[t] = "marshal"
  /\ inputJSON' = [inputJSON EXCEPT ![t] = Marshal(sources)]
  /\ pc' = [pc EXCEPT ![t] = "compile_lock"]
  /\ UNCHANGED <<embVars, artVars, world, sources, sessVars, options, resVars, ret, call,
                 budget, histVars>>

CompileLock(t) ==
  /\ pc[t] = "compile_lock"
  /\ Lock(t)
  /\ pc' = [pc EXCEPT ![t] = "compile_locked"]
  /\ UNCHANGED <<embVars, artVars, world, sources, closed, ctx, isolate, license, options,
                 inputJSON, resVars, ret, call, budget, histVars>>

\* the call is past validation, the closed check and import resolution
Passed(t, c) ==
  /\ call' = [c EXCEPT ![t].passed = TRUE]
  /\ passedCalls' = passedCalls + 1
  /\ pc' = [pc EXCEPT ![t] = "compile_ready"]

\* CompileWithOptions running the resolver whatever the options are
CompileCheck_AlwaysResolve(t) ==
  /\ pc[t] = "compile_locked"
  /\ IF closed
     THEN /\ Return(t, "Compile", "nil", "compiler has been closed")
          /\ Unlock(t)
          /\ UNCHANGED <<resVars, call, passedCalls>>
     ELSE /\ resolveImports(t)
          /\ UNCHANGED <<cbPath, ret, mu, passedCalls>>
  /\ UNCHANGED <<embVars, artVars, world, sources, closed, ctx, isolate, license, options,
                 inputJSON, budget, ctxCloses, isolateDisposes, compileCalls,
                 closeReturned, fault>>

\* CompileWithOptions without the test of s.closed
CompileCheck_NoClosedCheck(t) ==
  /\ pc[t] = "compile_locked"
  /\ IF options[t]
     THEN /\ resolveImports(t)
          /\ UNCHANGED <<cbPath, ret, mu, passedCalls>>
     ELSE /\ Passed(t, call)
          /\ UNCHANGED <<resVars, ret, mu>>
  /\ UNCHANGED <<embVars, artVars, world, sources, closed, ctx, isolate, license, options,
                 inputJSON, budget, ctxCloses, isolateDisposes, compileCalls,
                 closeReturned, fault>>

\* a closed-session return that leaves the mutex locked
CompileCheck_NoUnlock(t) ==
  /\ pc[t] = "compile_locked"
  /\ IF closed
     THEN /\ Return(t, "Compile", "nil", "compiler has been closed")
          /\ UNCHANGED <<resVars, call, passedCalls, mu>>
     ELSE IF options[t]
          THEN /\ resolveImports(t)
               /\ UNCHANGED <<cbPath, ret, mu, passedCalls>>
          ELSE /\ Passed(t, call)
               /\ UNCHANGED <<resVars, ret, mu>>
  /\ UNCHANGED <<embVars, artVars, world, sources, closed, ctx, isolate, license, options,
                 inputJSON, budget, ctxCloses, isolateDisposes, compileCalls,
                 closeReturned, fault>>

\* if s.closed { return nil, error }; with an ImportCallback the resolver
\* runs next
CompileCheck(t) ==
  /\ pc[t] = "compile_locked"
  /\ IF closed
     THEN /\ Return(t, "Compile", "nil", "compiler has been closed")
          /\ Unlock(t)
          /\ UNCHANGED <<resVars, call, passedCalls>>
     ELSE IF options[t]
          THEN /\ resolveImports(t)
               /\ UNCHANGED <<cbPath, ret, mu, passedCalls>>
          ELSE /\ Passed(t, call)
               /\ UNCHANGED <<resVars, ret, mu>>
  /\ UNCHANGED <<embVars, artVars, world, sources, closed, ctx, isolate, license, options,
                 inputJSON, budget, ctxCloses, isolateDisposes, compileCalls,
                 closeReturned, fault>>

\* the error resolveImports returned is dropped
CompileResolved_IgnoreError(t) ==
  /\ pc[t] = "resolved"
  /\ inputJSON' = [inputJSON EXCEPT ![t] = Marshal(sources)]
  /\ Passed(t, call)
  /\ UNCHANGED <<ret, mu>>
  /\ UNCHANGED <<embVars, artVars, world, sources, closed, ctx, isolate, license, options,
                 resVars, budget, ctxCloses, isolateDisposes, compileCalls,
                 closeReturned, fault>>

\* resolveImports has returned: an error ends the call, else the updated
\* input is marshalled again
CompileResolved(t) ==
  /\ pc[t] = "resolved"
  /\ IF rerr[t] # NoErr
     THEN /\ Return(t, "Compile", "nil", "import resolution failed")
          /\ Unlock(t)
          /\ UNCHANGED <<inputJSON, call, passedCalls>>
     ELSE /\ inputJSON' = [inputJSON EXCEPT ![t] = Marshal(sources)]
          /\ Passed(t, call)
          /\ UNCHANGED <<ret, mu>>
  /\ UNCHANGED <<embVars, artVars, world, sources, closed, ctx, isolate, license, options,
                 resVars, budget, ctxCloses, isolateDisposes, compileCalls,
                 closeReturned, fault>>

\* the compile function is looked up and called with inputJSON.  On a
\* constructed session globalThis.compile is the function init bound and
\* the input is a string, so the lookup, AsFunction and NewValue succeed.
CompileCall(t) ==
  /\ pc[t] = "compile_ready"
  /\ fault' = (fault \/ ~ctx \/ ~isolate)
  /\ call' = [call EXCEPT ![t].engine = @ + 1, ![t].arg = inputJSON[t]]
  /\ compileCalls' = compileCalls + 1
  /\ pc' = [pc EXCEPT ![t] = "compile_call"]
  /\ UNCHANGED <<embVars, artVars, world, sources, sessVars, options, inputJSON, resVars, ret,
                 budget, ctxCloses, isolateDisposes, passedCalls,
                 closeReturned>>

\* an engine error answered by calling the compile function again
CompileReturn_Retry(t) ==
  /\ pc[t] = "compile_call"
  /\ \E outcome \in {"output", "exception", "not json"} :
       CASE outcome = "output" ->
              Return(t, "Compile", "output", "nil") /\ Unlock(t)
         [] outcome = "exception" ->
              /\ pc' = [pc EXCEPT ![t] = "compile_ready"]
              /\ UNCHANGED <<ret, mu>>
         [] outcome = "not json" ->
              /\ Return(t, "Compile", "nil", "failed to unmarshal output")
              /\ Unlock(t)
  /\ UNCHANGED <<embVars, artVars, world, sources, closed, ctx, isolate, license, options,
                 inputJSON, resVars, call, budget, histVars>>

\* diagnostics of severity "error" answered with a call-level error
CompileReturn_ErrorsFail(t) ==
  /\ pc[t] = "compile_call"
  /\ \E r \in EngineResults :
       IF r.kind = "exception"
       THEN /\ Return(t, "Compile", "nil", "compilation failed")
            /\ call' = [call EXCEPT ![t].result = r]
       ELSE LET u == Unmarshal(r) IN
            IF u.err
            THEN /\ Return(t, "Compile", "nil", "failed to unmarshal output")
                 /\ call' = [call EXCEPT ![t].result = r]
            ELSE IF \E i \in 1..Len(u.output.Errors) :
                      u.output.Errors[i].severity = "error"
            THEN /\ Return(t, "Compile", "nil", "compilation failed")
                 /\ call' = [call EXCEPT ![t].result = r]
            ELSE /\ Return(t, "Compile", "output", "nil")
                 /\ call' = [call EXCEPT ![t].result = r,
                                      ![t].output = u.output]
  /\ Unlock(t)
  /\ UNCHANGED <<embVars, artVars, world, sources, closed, ctx, isolate, license, options,
                 inputJSON, resVars, budget, histVars>>

\* the Output that json.Unmarshal could not fill returned with the error
CompileReturn_PartialOutput(t) ==
  /\ pc[t] = "compile_call"
  /\ \E r \in EngineResults :
       IF r.kind = "exception"
       THEN /\ Return(t, "Compile", "nil", "compilation failed")
            /\ call' = [call EXCEPT ![t].result = r]
       ELSE LET u == Unmarshal(r) IN
            IF u.err
            THEN /\ Return(t, "Compile", "output",
                           "failed to unmarshal output")
                 /\ call' = [call EXCEPT ![t].result = r,
                                      ![t].output = OutputOf(<< >>, << >>)]
            ELSE /\ Return(t, "Compile", "output", "nil")
                 /\ call' = [call EXCEPT ![t].result = r,
                                      ![t].output = u.output]
  /\ Unlock(t)
  /\ UNCHANGED <<embVars, artVars, world, sources, closed, ctx, isolate, license, options,
                 inputJSON, resVars, budget, histVars>>

\* compileFunc.Call returns an error, or a string that json.Unmarshal
\* accepts or rejects; what it accepts is the *Output returned
CompileReturn(t) ==
  /\ pc[t] = "compile_call"
  /\ \E r \in EngineResults :
       IF r.kind = "exception"
       THEN /\ Return(t, "Compile", "nil", "compilation failed")
            /\ call' = [call EXCEPT ![t].result = r]
       ELSE LET u == Unmarshal(r) IN
            IF u.err
            THEN /\ Return(t, "Compile", "nil", "failed to unmarshal output")
                 /\ call' = [call EXCEPT ![t].result = r]
            ELSE /\ Return(t, "Compile", "output", "nil")
                 /\ call' = [call EXCEPT ![t].result = r,
                                      ![t].output = u.output]
  /\ Unlock(t)
  /\ UNCHANGED <<embVars, artVars, world, sources, closed, ctx, isolate, license, options,
                 inputJSON, resVars, budget, histVars>>

(***************************************************************************)
(* NewWithVersion: artifact resolution and construction                    *)
(***************************************************************************)
\* the caller's call fails: NewWithVersion returns (nil, err)
Fail(c, r, err) ==
  nv' = [nv EXCEPT ![c] = [r EXCEPT !.pc = "idle", !.out = "nil",
                                    !.err = err]]

\* NewWithVersion without the lookup in the embedded table
NewWithVersion_NoEmbedded(c) ==
  /\ nv[c].pc = "idle"
  /\ nvBudget > 0
  /\ nvBudget' = nvBudget - 1
  /\ \E version \in Requested :
       nv' = [nv EXCEPT ![c] = [NewCaller(version) EXCEPT !.pc = "catalog"]]
  /\ UNCHANGED <<embVars, sessionVars, env, cache>>

\* the call starts with getEmbeddedBinary: an embedded version goes to New
\* at once, any other to resolveVersion
NewWithVersion(c) ==
  /\ nv[c].pc = "idle"
  /\ nvBudget > 0
  /\ nvBudget' = nvBudget - 1
  /\ \E version \in Requested :
       LET e == getEmbeddedBinary(version) IN
       nv' = [nv EXCEPT ![c] =
                IF e.exists
                THEN [NewCaller(version) EXCEPT
                        !.pc = "new", !.content = e.binary,
                        !.origin = "embedded"]
                ELSE [NewCaller(version) EXCEPT !.pc = "catalog"]]
  /\ UNCHANGED <<embVars, sessionVars, env, cache>>

\* a resolveVersion that takes a default artifact for an unknown version
ResolveVersion_AnyVersion(c) ==
  /\ nv[c].pc = "catalog"
  /\ LET r == [nv[c] EXCEPT !.catalogRequests = @ + 1] IN
     IF env.catalog # "ok"
     THEN Fail(c, r, "failed to fetch version list")
     ELSE nv' = [nv EXCEPT ![c] =
                   [r EXCEPT !.filename =
                               IF r.version \in DOMAIN Releases
                               THEN Releases[r.version]
                               ELSE "soljson-latest.js",
                             !.pc = "cache_read"]]
  /\ UNCHANGED <<embVars, sessionVars, env, cache, nvBudget>>

\* resolveVersion: fetchVersionList asks the remote for list.json; a
\* transport error or a status other than 200 is an error, and so is a
\* version that Releases does not hold
ResolveVersion(c) ==
  /\ nv[c].pc = "catalog"
  /\ LET r == [nv[c] EXCEPT !.catalogRequests = @ + 1] IN
     IF env.catalog # "ok"
     THEN Fail(c, r, "failed to fetch version list")
     ELSE IF r.version \notin DOMAIN Releases
     THEN Fail(c, r, "version not found")
     ELSE nv' = [nv EXCEPT ![c] =
                   [r EXCEPT !.filename = Releases[r.version],
                             !.pc = "cache_read"]]
  /\ UNCHANGED <<embVars, sessionVars, env, cache, nvBudget>>

\* loadCachedBinary: no path without a home directory, no content without
\* the file; else whatever os.ReadFile reads
loadCachedBinary(version) ==
  IF ~env.home \/ ~cache[version].exists
  THEN [content |-> "", found |-> FALSE]
  ELSE [content |-> cache[version].content, found |-> TRUE]

\* a downloadSolcBinary that does not look into the cache
LoadCachedBinary_Miss(c) ==
  /\ nv[c].pc = "cache_read"
  /\ nv' = [nv EXCEPT ![c].pc = "download"]
  /\ UNCHANGED <<embVars, sessionVars, env, cache, nvBudget>>

\* downloadSolcBinary, first part: what the cache holds is returned
LoadCachedBinary(c) ==
  /\ nv[c].pc = "cache_read"
  /\ LET r == [nv[c] EXCEPT !.cacheReads = @ + (IF env.home THEN 1 ELSE 0)]
         cached == loadCachedBinary(r.version)
     IN nv' = [nv EXCEPT ![c] =
                 IF cached.found
                 THEN [r EXCEPT !.content = cached.content,
                                !.origin = "cache", !.pc = "new"]
                 ELSE [r EXCEPT !.pc = "download"]]
  /\ UNCHANGED <<embVars, sessionVars, env, cache, nvBudget>>

\* a failed download answered by asking again
Download_Retry(c) ==
  /\ nv[c].pc = "download"
  /\ LET r == [nv[c] EXCEPT !.downloadRequests = @ + 1] IN
     IF env.artifact # "ok"
     THEN nv' = [nv EXCEPT ![c] = r]
     ELSE nv' = [nv EXCEPT ![c] =
                   [r EXCEPT !.content = RemoteBody(r.filename),
                             !.origin = "download", !.pc = "save"]]
  /\ UNCHANGED <<embVars, sessionVars, env, cache, nvBudget>>

\* downloadSolcBinary, second part: http.Get of the artifact
Download(c) ==
  /\ nv[c].pc = "download"
  /\ LET r == [nv[c] EXCEPT !.downloadRequests = @ + 1] IN
     IF env.artifact # "ok"
     THEN Fail(c, r, "failed to download solc binary")
     ELSE nv' = [nv EXCEPT ![c] =
                   [r EXCEPT !.content = RemoteBody(r.filename),
                             !.origin = "download", !.pc = "save"]]
  /\ UNCHANGED <<embVars, sessionVars, env, cache, nvBudget>>

\* a failure of saveBinaryToCache returned as the error of the call
SaveOpen_Fatal(c) ==
  /\ nv[c].pc = "save"
  /\ IF ~env.home \/ env.disk = "read-only"
     THEN /\ Fail(c, nv[c], "failed to cache binary")
          /\ UNCHANGED cache
     ELSE /\ cache' = [cache EXCEPT ![nv[c].version] = File("")]
          /\ nv' = [nv EXCEPT ![c].pc = "write", ![c].cacheWrites = @ + 1]
  /\ UNCHANGED <<embVars, sessionVars, env, nvBudget>>

\* saveBinaryToCache: ensureCacheDir and the opening of the file by
\* os.WriteFile, which creates it or truncates it; an error is only warned
\* about
SaveOpen(c) ==
  /\ nv[c].pc = "save"
  /\ IF ~env.home \/ env.disk = "read-only"
     THEN /\ nv' = [nv EXCEPT ![c].pc = "new"]
          /\ UNCHANGED cache
     ELSE /\ cache' = [cache EXCEPT ![nv[c].version] = File("")]
          /\ nv' = [nv EXCEPT ![c].pc = "write", ![c].cacheWrites = @ + 1]
  /\ UNCHANGED <<embVars, sessionVars, env, nvBudget>>

\* an os.WriteFile that stops before the end of the content
SaveWrite_Short(c) ==
  /\ nv[c].pc = "write"
  /\ IF env.disk = "full"
     THEN UNCHANGED cache
     ELSE cache' = [cache EXCEPT ![nv[c].version] = File(CutShort)]
  /\ nv' = [nv EXCEPT ![c].pc = "new"]
  /\ UNCHANGED <<embVars, sessionVars, env, nvBudget>>

\* os.WriteFile writes the content, unless the disk is full
SaveWrite(c) ==
  /\ nv[c].pc = "write"
  /\ IF env.disk = "full"
     THEN UNCHANGED cache
     ELSE cache' = [cache EXCEPT ![nv[c].version] = File(nv[c].content)]
  /\ nv' = [nv EXCEPT ![c].pc = "new"]
  /\ UNCHANGED <<embVars, sessionVars, env, nvBudget>>

\* v8go.NewIsolate and v8go.NewContext for the baseSolc under construction
NewEngine(r) ==
  [r EXCEPT !.isolate = TRUE, !.isolates = @ + 1,
            !.ctx = TRUE, !.contexts = @ + 1]

\* baseSolc.init: RunScript of the artifact, then the bindings of the entry
\* points by Module.cwrap; gives the error, or "nil"
init(soljsonjs) ==
  IF soljsonjs = CutShort THEN "failed to execute soljson.js"
  ELSE IF soljsonjs = NoModule THEN "failed to bind version function"
  ELSE "nil"

\* baseSolc.cleanup on the baseSolc under construction
cleanup(r) ==
  LET a == IF r.ctx
           THEN [r EXCEPT !.ctx = FALSE, !.ctxCloses = @ + 1] ELSE r
  IN  IF a.isolate
      THEN [a EXCEPT !.isolate = FALSE, !.isolateDisposes = @ + 1] ELSE a

\* New returns the two results of newBaseSolc: the *baseSolc, nil or not,
\* becomes a Solc interface value whose dynamic type is *baseSolc. typ is
\* the dynamic type of the Solc that the call returns, empty for the nil
\* interface, which is what a `return nil, err` gives
AsSolc(r) == [r EXCEPT !.typ = "*baseSolc"]

\* a newBaseSolc that returns the error of init and leaves the engine as
\* it is
New_NoCleanup(c) ==
  /\ nv[c].pc = "new"
  /\ IF nv[c].content = ""
     THEN Fail(c, AsSolc(nv[c]), "soljsonjs cannot be empty")
     ELSE LET solc == NewEngine(nv[c])
              err == init(solc.content)
          IN  IF err # "nil"
              THEN Fail(c, AsSolc(solc),
                        "failed to initialize compiler: " \o err)
              ELSE nv' = [nv EXCEPT ![c] =
                            [AsSolc(solc) EXCEPT !.pc = "idle", !.out = "session",
                                         !.err = "nil"]]
  /\ UNCHANGED <<embVars, sessionVars, env, cache, nvBudget>>

\* New(binaryContent): an empty artifact is refused, any other one is the
\* script of a session
New(c) ==
  /\ nv[c].pc = "new"
  /\ IF nv[c].content = ""
     THEN Fail(c, AsSolc(nv[c]), "soljsonjs cannot be empty")
     ELSE LET solc == NewEngine(nv[c])
              err == init(solc.content)
          IN  IF err # "nil"
              THEN Fail(c, AsSolc(cleanup(solc)),
                        "failed to initialize compiler: " \o err)
              ELSE nv' = [nv EXCEPT ![c] =
                            [AsSolc(solc) EXCEPT !.pc = "idle", !.out = "session",
                                         !.err = "nil"]]
  /\ UNCHANGED <<embVars, sessionVars, env, cache, nvBudget>>

(***************************************************************************)
(* Specifications                                                          *)
(***************************************************************************)
\* goroutines sharing one session call License, Version, CompileWithOptions
\* and Close in any order and interleaving
Next ==
  \E t \in Goroutines :
    \/ LicenseBegin(t) \/ LicenseLock(t) \/ LicenseCall(t)
    \/ LicenseReturn(t)
    \/ VersionBegin(t) \/ VersionLock(t) \/ VersionCall(t)
    \/ VersionReturn(t)
    \/ CloseBegin(t) \/ CloseLock(t) \/ CloseCheck(t) \/ CleanupCtx(t)
    \/ CleanupIsolate(t)
    \/ CompileBegin(t) \/ CompileMarshal(t) \/ CompileLock(t)
    \/ CompileCheck(t) \/ RangeNext(t) \/ FileNext(t) \/ CallbackReturn(t)
    \/ Unwind(t) \/ CompileResolved(t) \/ CompileCall(t)
    \/ CompileReturn(t)

Spec == Init /\ [][Next]_vars

\* the steps of a call of t after its lock attempt and before it: the
\* goroutine runs them whenever it is scheduled
Running(t) ==
  \/ LicenseCall(t) \/ LicenseReturn(t)
  \/ VersionCall(t) \/ VersionReturn(t)
  \/ CloseCheck(t) \/ CleanupCtx(t) \/ CleanupIsolate(t)
  \/ CompileMarshal(t) \/ CompileCheck(t) \/ RangeNext(t) \/ FileNext(t)
  \/ CallbackReturn(t) \/ Unwind(t) \/ CompileResolved(t)
  \/ CompileCall(t) \/ CompileReturn(t)

\* s.mu.Lock() of a call of t
Locking(t) ==
  LicenseLock(t) \/ VersionLock(t) \/ CloseLock(t) \/ CompileLock(t)

\* the scheduler runs every goroutine that can run, and sync.Mutex hands
\* the lock to a goroutine that keeps waiting for it (its starvation
\* mode); whether a goroutine starts another call is up to the program.
\* Every import callback and every engine call returns: each is a step
\* of Running
Fairness ==
  \A t \in Goroutines : WF_vars(Running(t)) /\ SF_vars(Locking(t))

SpecLive == Init /\ [][Next]_vars /\ Fairness

(***************************************************************************)
(* An ImportCallback that calls the session it is running under           *)
(***************************************************************************)
\* the calls the callback can make: CompileWithOptions with a nil or a
\* non-nil input, License, Version, Close
NestedCalls ==
  {"CompileWithOptions(nil)", "CompileWithOptions", "License", "Version",
   "Close"}

\* where the nested call goes first: the first json.Marshal of
\* CompileWithOptions, or s.mu.Lock()
NestedEntry(op) ==
  CASE op = "CompileWithOptions" -> "marshal"
    [] op = "License" -> "license_lock"
    [] op = "Version" -> "version_lock"
    [] op = "Close" -> "close_lock"

\* the body of the callback calls op on the session, on the goroutine that
\* runs the callback and so holds s.mu. A nil input, and License without a
\* license function, are answered before the mutex and the callback goes
\* on; any other call goes on as that operation does, and the callback
\* waits for it to return.
CallbackCalls(t) ==
  /\ pc[t] = "callback"
  /\ call[t].nested = "none"
  /\ \E op \in NestedCalls :
       IF op = "CompileWithOptions(nil)"
       THEN /\ call' = [call EXCEPT ![t].nested = op,
                          ![t].nestedOut = "input cannot be nil"]
            /\ UNCHANGED pc
       ELSE IF op = "License" /\ ~license
       THEN /\ call' = [call EXCEPT ![t].nested = op, ![t].nestedOut = ""]
            /\ UNCHANGED pc
       ELSE /\ call' = [call EXCEPT ![t].nested = op]
            /\ pc' = [pc EXCEPT ![t] = NestedEntry(op)]
  /\ UNCHANGED <<embVars, artVars, world, sources, sessVars, options,
                 inputJSON, resVars, ret, budget, histVars>>

NextReentrant == Next \/ \E t \in Goroutines : CallbackCalls(t)

\* a shared session whose compile calls have an import to resolve
InitReentrant ==
  /\ Init
  /\ world.lib[fa] # FileOf(<< >>)

SpecReentrant == InitReentrant /\ [][NextReentrant]_vars

\* one goroutine compiles with an ImportCallback
NextResolver ==
  \/ CompileBegin(1) \/ CompileMarshal(1) \/ CompileLock(1)
  \/ CompileCheck(1) \/ RangeNext(1) \/ FileNext(1) \/ CallbackReturn(1)
  \/ Unwind(1) \/ CompileResolved(1) \/ CompileCall(1) \/ CompileReturn(1)

SpecResolver == InitResolver /\ [][NextResolver]_vars

\* one call of one goroutine on the three-file inputs and on the cycles
InitRing ==
  /\ world \in GraphWorlds \cup RingWorlds
  /\ sources = InitialSources(world)
  /\ budget = 1
  /\ license = TRUE
  /\ InitSession
  /\ InitNoArtifact

SpecRing == InitRing /\ [][NextResolver]_vars

\* between two calls the caller builds the same Input again: Sources as
\* it was before any resolver run added to it
FreshInput ==
  /\ \A t \in Goroutines : pc[t] = "idle"
  /\ budget > 0
  /\ sources # InitialSources(world)
  /\ sources' = InitialSources(world)
  /\ UNCHANGED <<embVars, artVars, world, sessVars, pc, options, inputJSON,
                 resVars, ret, call, budget, histVars>>

\* compile calls of the goroutines on one session, made one after another,
\* each on the Input as the caller built it
InitOrders ==
  /\ world \in ChainWorlds \cup SessionWorlds
  /\ sources = InitialSources(world)
  /\ budget = MaxCalls
  /\ license = TRUE
  /\ InitSession
  /\ InitNoArtifact

NextOrders ==
  \/ \E t \in Goroutines :
       \/ /\ \A u \in Goroutines : pc[u] = "idle"
          /\ sources = InitialSources(world)
          /\ CompileBegin(t)
       \/ CompileMarshal(t) \/ CompileLock(t)
       \/ CompileCheck(t) \/ RangeNext(t) \/ FileNext(t)
       \/ CallbackReturn(t) \/ Unwind(t) \/ CompileResolved(t)
       \/ CompileCall(t) \/ CompileReturn(t)
  \/ FreshInput

SpecOrders == InitOrders /\ [][NextOrders]_vars

\* callers construct sessions with NewWithVersion, one after another or at
\* the same time
NextArtifact ==
  \E c \in Callers :
    \/ NewWithVersion(c) \/ ResolveVersion(c) \/ LoadCachedBinary(c)
    \/ Download(c) \/ SaveOpen(c) \/ SaveWrite(c) \/ New(c)

SpecArtifact == InitArtifact /\ [][NextArtifact]_vars

(***************************************************************************)
(* GetEmbeddedVersions                                                     *)
(***************************************************************************)
\* the orders in which a range over the keys of a map can give them
RangeOrders(m) ==
  { s \in [1..Cardinality(DOMAIN m) -> DOMAIN m] :
      \A i, j \in DOMAIN s : i # j => s[i] # s[j] }

\* a GetEmbeddedVersions that appends every key twice
GetEmbeddedVersions_Twice ==
  /\ \E s \in RangeOrders(embeddedVersions) :
       versions' = [returned |-> TRUE, list |-> s \o s]
  /\ UNCHANGED <<sessionVars, artVars, embeddedVersions>>

\* GetEmbeddedVersions: appends the keys as the range gives them
GetEmbeddedVersions ==
  /\ \E s \in RangeOrders(embeddedVersions) :
       versions' = [returned |-> TRUE, list |-> s]
  /\ UNCHANGED <<sessionVars, artVars, embeddedVersions>>

\* the operations on artifacts, with the listing of the embedded table
NextEmbedded == NextArtifact \/ GetEmbeddedVersions

\* callers on a machine whose cache is still empty
InitEmbeddedCallers ==
  /\ InitArtifact
  /\ cache = [v \in Requested |-> NoFile]

SpecEmbedded == InitEmbeddedCallers /\ [][NextEmbedded]_vars

(***************************************************************************)
(* Properties of the shared session                                        *)
(***************************************************************************)
\* where a goroutine is inside the V8 engine: in the license, version or
\* compile function, in ctx.Close() or in isolate.Dispose()
EnginePcs ==
  {"license_call", "version_call", "compile_call", "ctx_close",
   "isolate_dispose"}

\* where a goroutine waits for the mutex
LockPcs == {"license_lock", "version_lock", "compile_lock", "close_lock"}

InEngine == { t \in Goroutines : pc[t] \in EnginePcs }

\* the goroutine's call has returned
Returned(t) == pc[t] = "idle" /\ ret[t].op # "none"

\* C1: whatever License, Version, CompileWithOptions and Close calls the
\* goroutines make on the session and however they interleave, at most one
\* goroutine is inside the V8 engine at any time.
C1_OneInEngine == Cardinality(InEngine) <= 1

\* one goroutine is in the compile function while another waits for the mutex
C1_Witness ==
  \E t, u \in Goroutines :
    t # u /\ pc[t] = "compile_call" /\ pc[u] \in LockPcs

\* C2: a CompileWithOptions call that is past input validation, the closed
\* check and import resolution calls the engine's compile function exactly
\* once before it returns (never more at any time), so once all calls have
\* returned the number of compile invocations is the number of such calls.
C2_CompileOncePerCall ==
  /\ \A t \in Goroutines :
       /\ call[t].op = "Compile" => call[t].engine <= 1
       /\ (call[t].op = "Compile" /\ call[t].passed /\ Returned(t))
            => call[t].engine = 1
       /\ (call[t].op = "Compile" /\ call[t].engine = 1) => call[t].passed
  /\ (\A t \in Goroutines : pc[t] = "idle") => compileCalls = passedCalls

\* both goroutines have compiled, each past resolution, and have returned
C2_Witness ==
  /\ \A t \in Goroutines :
       Returned(t) /\ call[t].op = "Compile" /\ call[t].passed
  /\ compileCalls = NumGoroutines

\* C3: when the ImportCallback reports an error during a compile call, the
\* call returns the import-resolution error with a nil output and has not
\* called the engine's compile function.
C3_CallbackErrorAborts ==
  \A t \in Goroutines :
    call[t].cbErr =>
      /\ call[t].engine = 0
      /\ pc[t] \in {"unwind", "resolved", "idle"}
      /\ pc[t] = "idle" =>
           ret[t] = [op |-> "Compile", out |-> "nil",
                     err |-> "import resolution failed"]

\* a compile call whose callback reported an error has returned
C3_Witness ==
  \E t \in Goroutines : Returned(t) /\ call[t].cbErr /\ compileCalls = 0

(***************************************************************************)
(* Properties of import resolution                                         *)
(***************************************************************************)
\* the set of elements of a sequence
Range(q) == { q[i] : i \in 1..Len(q) }

\* the logical paths the imports of a text resolve to, seen from file
Targets(content, file) ==
  { resolveAbsolutePath(l, file) : l \in Range(extractImports(content)) }

RECURSIVE Reach(_, _)
\* the files that imports lead to from the files S of a world, S included
Reach(w, S) ==
  LET N == S \cup UNION { Targets(w.lib[f], f) : f \in S \cap DOMAIN w.lib }
  IN IF N = S THEN S ELSE Reach(w, N)

RECURSIVE Layers(_, _, _)
\* the files S taken away layer by layer, first those that import nothing
\* in S: the number of layers, one more than the longest chain of imports
\* in S; -1 when a cycle of imports is left over
Layers(w, S, n) ==
  LET leaves == { f \in S : Targets(w.lib[f], f) \cap S = {} }
  IN IF S = {} THEN n
     ELSE IF leaves = {} THEN -1
     ELSE Layers(w, S \ leaves, n + 1)

\* the import graph of the world is acyclic and the callback can supply
\* every file that is missing from Sources
AcyclicAndSupplied(w) ==
  LET R == Reach(w, w.src0)
  IN R \subseteq DOMAIN w.lib /\ Layers(w, R, 0) >= 0

\* no chain of imports from an originally supplied file is longer than n
ChainsWithin(w, n) ==
  LET R == Reach(w, w.src0) \cap DOMAIN w.lib
  IN Layers(w, R, 0) - 1 <= n

\* Sources holds every key it had when the run started, and every import
\* of every key, resolved against that key
Complete(t) ==
  /\ DOMAIN call[t].runStart \subseteq DOMAIN sources
  /\ \A k \in DOMAIN sources :
       Targets(sources[k].Content, k) \subseteq DOMAIN sources

\* C4, as claimed: for every acyclic import graph whose missing files the
\* callback can supply, resolveImports returns without error and Sources is
\* transitively complete.
C4_AsClaimed ==
  \A t \in Goroutines :
    (pc[t] = "resolved" /\ AcyclicAndSupplied(world))
      => (rerr[t] = NoErr /\ Complete(t))

\* C4, amended: the same for the graphs in which no chain of imports from
\* an originally supplied file is longer than maxDepth.
C4_CompleteWithinDepth ==
  \A t \in Goroutines :
    (pc[t] = "resolved" /\ AcyclicAndSupplied(world)
       /\ ChainsWithin(world, maxDepth))
      => (rerr[t] = NoErr /\ Complete(t))

\* a run on an acyclic graph has returned after fetching a file that itself
\* imports a further file
C4_Witness ==
  \E t \in Goroutines :
    /\ pc[t] = "resolved"
    /\ AcyclicAndSupplied(world) /\ ChainsWithin(world, maxDepth)
    /\ \E i \in 1..Len(call[t].cb) : call[t].cb[i].depth >= 2

\* C5: within one resolveImports run the ImportCallback is invoked at most
\* once for each resolved path, whatever the import graph.
C5_CallbackOncePerPath ==
  \A t \in Goroutines :
    \A i, j \in 1..Len(call[t].cb) :
      call[t].cb[i].path = call[t].cb[j].path => i = j

\* a.sol imports lib/b.sol and lib/b.sol imports a.sol back; the run has
\* fetched lib/b.sol and returned
C5_Witness ==
  \E t \in Goroutines :
    /\ pc[t] = "resolved" /\ rerr[t] = NoErr
    /\ fb \in { call[t].cb[i].path : i \in 1..Len(call[t].cb) }
    /\ fb \in Targets(sources[fa].Content, fa)
    /\ fa \in Targets(sources[fb].Content, fb)

\* the number of import statements in the given files of a world
SumImports(w, files) ==
  Cardinality(UNION { { <<f, i>> : i \in 1..Len(extractImports(w.lib[f])) } :
                        f \in files })

\* one range iteration per original key and the last one; per file one
\* loop step per import, one to return and one to pass an error up; one
\* callback return per import; the return of the error by resolveImports
StepBound(w) ==
  Cardinality(w.src0) + 2 * Cardinality(DOMAIN w.lib)
    + 2 * SumImports(w, DOMAIN w.lib) + 2

ResolverPcs == {"range", "file", "callback", "unwind"}

\* the next step of the run is possible: the loop and the callback return
\* have a resolveFileImports call to work in
CanStep(t) ==
  /\ pc[t] \in {"file", "callback"} => frames[t] # << >>
  /\ pc[t] = "callback" => cbPath[t] # << >>

\* C6: resolveImports terminates on every finite import graph, cyclic or
\* not: while it runs a next step is always possible, and it returns
\* within a number of steps that the size of the graph bounds.
C6_ResolveTerminates ==
  \A t \in Goroutines :
    /\ call[t].steps <= StepBound(world)
    /\ pc[t] \in ResolverPcs => CanStep(t)
    /\ Len(frames[t]) <= Cardinality(DOMAIN world.lib)

\* a run on a graph with a cycle has returned
C6_Witness ==
  \E t \in Goroutines :
    /\ pc[t] = "resolved"
    /\ call[t].steps > 0
    /\ \E f \in DOMAIN sources :
         f \in Targets(sources[f].Content, f)
           \/ \E g \in Targets(sources[f].Content, f) :
                g \in DOMAIN sources /\ f \in Targets(sources[g].Content, g)

\* C7, as claimed: when a chain of imports is deeper than maxDepth the run
\* fails with the depth error, and the ImportCallback is never invoked for
\* a file that lies beyond the limit (at a depth greater than maxDepth).
C7_AsClaimed ==
  \A t \in Goroutines :
    /\ (pc[t] = "resolved" /\ AcyclicAndSupplied(world)
          /\ ~ChainsWithin(world, maxDepth))
         => rerr[t].kind = "depth"
    /\ \A i \in 1..Len(call[t].cb) : call[t].cb[i].depth <= maxDepth

\* C8: during a resolveImports run Sources only grows, the content under a
\* key never changes, and the ImportCallback is never invoked for a path
\* that is a key of Sources.
C8_SourcesOnlyGrow ==
  [][ /\ \A p \in DOMAIN sources :
           p \in DOMAIN sources' /\ sources'[p] = sources[p]
      /\ \A t \in Goroutines :
           (pc[t] # "callback" /\ pc'[t] = "callback")
             => cbPath'[t] \notin DOMAIN sources ]_vars

\* a run has returned with two files more in Sources than it started with
C8_Witness ==
  \E t \in Goroutines :
    /\ pc[t] = "resolved"
    /\ Cardinality(DOMAIN sources \ DOMAIN call[t].runStart) = 2

(***************************************************************************)
(* Properties of Close                                                     *)
(***************************************************************************)
\* C9: over any interleaving of Close calls the context is closed and the
\* isolate disposed once in total (both done when a Close has returned),
\* every Close returns nil, and a Close on a closed session changes nothing
\* of the session.
C9_CloseOnce ==
  /\ [](/\ ctxCloses <= 1
        /\ isolateDisposes <= 1
        /\ closeReturned =>
             (ctxCloses = 1 /\ isolateDisposes = 1 /\ ~ctx /\ ~isolate)
        /\ \A t \in Goroutines :
             (Returned(t) /\ ret[t].op = "Close") => ret[t].err = "nil")
  /\ [][closed =>
          UNCHANGED <<closed, ctx, isolate, license, ctxCloses,
                      isolateDisposes, sources>>]_vars

\* two Close calls have returned
C9_Witness ==
  \E t, u \in Goroutines :
    /\ t # u
    /\ Returned(t) /\ ret[t].op = "Close"
    /\ Returned(u) /\ ret[u].op = "Close"

\* C10: closed is terminal, and a call that starts after a Close has
\* returned gives the closed answer: License and Version return "",
\* CompileWithOptions returns a nil output and an error; such a call never
\* enters the engine, never invokes the ImportCallback and leaves Sources
\* as it found it.
C10_ClosedIsTerminal ==
  /\ [](\A t \in Goroutines :
          call[t].afterClose =>
            /\ closed
            /\ call[t].engine = 0
            /\ call[t].cb = << >>
            /\ sources = call[t].before
            /\ pc[t] \notin EnginePcs \cup ResolverPcs
            /\ Returned(t) =>
                 CASE ret[t].op = "Compile" ->
                        ret[t].out = "nil" /\ ret[t].err # "nil"
                   [] ret[t].op \in {"License", "Version"} ->
                        ret[t].out = ""
                   [] OTHER -> ret[t].err = "nil")
  /\ [][(closed => closed') /\ (closeReturned => closeReturned')]_vars

\* a compile call with an ImportCallback, started after Close returned, has
\* returned the closed-session error
C10_Witness ==
  \E t \in Goroutines :
    /\ Returned(t) /\ call[t].afterClose /\ options[t]
    /\ ret[t] = [op |-> "Compile", out |-> "nil",
                 err |-> "compiler has been closed"]

(***************************************************************************)
(* Errors and results of CompileWithOptions                                *)
(***************************************************************************)
\* the goroutine's CompileWithOptions call has returned
CompileReturned(t) == Returned(t) /\ ret[t].op = "Compile"

\* C11, as claimed: every CompileWithOptions call made after Close has
\* returned fails with the closed-session error, whatever its arguments.
C11_AsClaimed ==
  \A t \in Goroutines :
    (CompileReturned(t) /\ call[t].afterClose)
      => ret[t].err = "compiler has been closed"

\* C11, amended: a CompileWithOptions call made after Close has returned
\* fails with the closed-session error when its input is not nil, and
\* with the invalid-input error when its input is nil; either way the
\* output is nil.
C11_ClosedErrorUnlessNil ==
  \A t \in Goroutines :
    (CompileReturned(t) /\ call[t].afterClose)
      => /\ ret[t].out = "nil"
         /\ ret[t].err = IF call[t].inputNil THEN "input cannot be nil"
                         ELSE "compiler has been closed"

\* a call without an ImportCallback and with a non-nil input, made after
\* Close returned, has returned the closed-session error
C11_Witness ==
  \E t \in Goroutines :
    /\ CompileReturned(t) /\ call[t].afterClose
    /\ ~call[t].inputNil /\ ~options[t]
    /\ ret[t].err = "compiler has been closed"

\* where a goroutine is inside a license, version or compile engine call
EngineCallPcs == {"license_call", "version_call", "compile_call"}

\* no license, version or compile engine call is in flight
NoEngineCall == \A u \in Goroutines : pc[u] \notin EngineCallPcs

\* C12: the engine context and isolate are never released while a compile,
\* version or license engine call on the session is in flight: during such
\* a call the context and the isolate are there, the session is not closed
\* and no goroutine is inside ctx.Close() or isolate.Dispose(); every step
\* that releases something starts with no engine call in flight; and the
\* engine is never entered once its context or isolate has been released.
C12_NoReleaseDuringCall ==
  /\ [](/\ ~fault
        /\ \A t \in Goroutines :
             pc[t] \in EngineCallPcs =>
               /\ ctx /\ isolate /\ ~closed
               /\ \A u \in Goroutines :
                    pc[u] \notin {"ctx_close", "isolate_dispose"})
  /\ [][(\/ ctx' # ctx \/ isolate' # isolate \/ closed' # closed
          \/ ctxCloses' # ctxCloses \/ isolateDisposes' # isolateDisposes)
         => NoEngineCall]_vars

\* a Close waits for the mutex while another goroutine, which holds it, is
\* in the compile function
C12_Witness ==
  \E t, u \in Goroutines :
    pc[t] = "compile_call" /\ pc[u] = "close_lock" /\ mu = t

\* the diagnostics of severity "error" in a sequence of diagnostics
ErrorsIn(diags) ==
  { i \in 1..Len(diags) : diags[i].severity = "error" }

\* the compile function gave the call output with an error diagnostic
GaveErrorDiagnostics(t) ==
  /\ call[t].result.kind = "string" /\ call[t].result.json
  /\ "errors" \in DOMAIN call[t].result.doc
  /\ ErrorsIn(call[t].result.doc.errors) # {}

\* C13: when the engine's compile output contains diagnostics of severity
\* "error", CompileWithOptions returns a nil error and an Output whose
\* Errors are those diagnostics; no returned call-level error comes from
\* output that the engine produced as JSON.
C13_DiagnosticsAreData ==
  \A t \in Goroutines :
    /\ (CompileReturned(t) /\ GaveErrorDiagnostics(t))
         => /\ ret[t].err = "nil" /\ ret[t].out = "output"
            /\ ~call[t].output.nil
            /\ call[t].output.Errors = call[t].result.doc.errors
    /\ (CompileReturned(t) /\ call[t].result.kind = "string"
          /\ call[t].result.json)
         => ret[t].err = "nil"

\* a call whose compile output carries the pragma error, and no contract,
\* has returned
C13_Witness ==
  \E t \in Goroutines :
    /\ CompileReturned(t) /\ GaveErrorDiagnostics(t)
    /\ call[t].output.Errors = <<PragmaError>>
    /\ call[t].output.Contracts = << >>

\* C14: for every CompileWithOptions call the returned output is nil if and
\* only if the returned error is not nil.
C14_OutputIffNoError ==
  \A t \in Goroutines :
    CompileReturned(t) =>
      /\ (ret[t].out = "nil") <=> (ret[t].err # "nil")
      /\ call[t].output.nil <=> (ret[t].err # "nil")
      /\ ret[t].out \in {"nil", "output"}

\* one call has returned an Output, another has failed after the compile
\* function gave it something that is not JSON
C14_Witness ==
  \E t, u \in Goroutines :
    /\ CompileReturned(t) /\ ret[t].err = "nil" /\ ~call[t].output.nil
    /\ CompileReturned(u) /\ ret[u].err = "failed to unmarshal output"
    /\ call[u].output.nil

\* C15: CompileWithOptions with a nil input returns the invalid-input error
\* before any engine or resolver work: the call is over in its first step
\* with a nil output and that error, it has not entered the engine nor
\* invoked the ImportCallback, and the step in which a call with a nil
\* input starts and returns changes nothing of the session, of Sources or
\* of any resolver.
C15_NilInputRefused ==
  /\ [](\A t \in Goroutines :
          (call[t].op = "Compile" /\ call[t].inputNil) =>
            /\ Returned(t)
            /\ ret[t] = [op |-> "Compile", out |-> "nil",
                         err |-> "input cannot be nil"]
            /\ call[t].engine = 0 /\ call[t].cb = << >>
            /\ call[t].steps = 0 /\ call[t].output.nil)
  /\ [][\A t \in Goroutines :
          (pc[t] = "idle" /\ pc'[t] = "idle" /\ budget' # budget
             /\ call'[t].op = "Compile" /\ call'[t].inputNil)
            => UNCHANGED <<sources, sessVars, inputJSON, resVars,
                           histVars>>]_vars

\* a call with a nil input and an ImportCallback has returned while the
\* session is open
C15_Witness ==
  \E t \in Goroutines :
    /\ CompileReturned(t) /\ call[t].inputNil /\ options[t]
    /\ ~closed /\ ctx /\ isolate

\* the goroutine is in, or has returned from, a CompileWithOptions call
\* without an ImportCallback (nil options, or a nil ImportCallback)
NoCallback(t) == call[t].op = "Compile" /\ ~options[t]

\* C16: a CompileWithOptions call with nil options, or with options whose
\* ImportCallback is nil, never runs the import resolver: it is never at a
\* resolver step, invokes no callback, and Sources changes only in a
\* resolver step of a call that has a callback; the call enters the
\* compile function at most once, exactly once when it returns without
\* having been refused for a nil input or a closed session, and what it
\* passes is the JSON it marshalled from its input (the JSON of the
\* input as the caller passed it, when no other call changed Sources).
C16_NoCallbackNoResolver ==
  /\ [](\A t \in Goroutines :
          NoCallback(t) =>
            /\ pc[t] \notin ResolverPcs \cup {"resolved"}
            /\ call[t].cb = << >> /\ call[t].steps = 0
            /\ call[t].engine <= 1
            /\ (Returned(t) /\ ~call[t].inputNil
                  /\ ret[t].err # "compiler has been closed")
                 => call[t].engine = 1
            /\ call[t].engine = 1 =>
                 /\ call[t].arg = inputJSON[t]
                 /\ sources = call[t].before
                      => call[t].arg = Marshal(call[t].before))
  /\ [][sources' # sources =>
          \E u \in Goroutines :
            options[u] /\ pc[u] \in ResolverPcs]_vars

\* a call without a callback whose input imports a file that Sources does
\* not hold has returned after passing the input, as it was, to the
\* compile function
C16_Witness ==
  \E t \in Goroutines :
    /\ NoCallback(t) /\ Returned(t) /\ call[t].engine = 1
    /\ call[t].arg = Marshal(call[t].before)
    /\ sources = call[t].before
    /\ \E k \in DOMAIN sources :
         ~(Targets(sources[k].Content, k) \subseteq DOMAIN sources)

\* C17, as claimed: for every import statement the resolver processes, the
\* ImportCallback is invoked with the import URL exactly as it is written
\* in the import statement.
C17_AsClaimed ==
  \A t \in Goroutines :
    \A i \in 1..Len(call[t].cb) :
      call[t].cb[i].path = call[t].cb[i].literal

(***************************************************************************)
(* Properties of artifact resolution                                       *)
(***************************************************************************)
\* the caller's NewWithVersion call has returned
Constructed(c) == nv[c].pc = "idle" /\ nv[c].out # "none"

\* the caller asked, or asks, for a version of the embedded table
AsksEmbedded(c) == nv[c].version \in DOMAIN embeddedVersions

\* C18: for a version of the embedded table NewWithVersion takes the
\* artifact from the table: the call makes no catalog request, no download
\* request, no cache read and no cache write, whatever the cache holds and
\* however the remote answers; it hands the embedded binary to New and
\* returns a session; and the cache only changes in the save steps of a
\* call for a version that is not embedded.
C18_EmbeddedNoIO ==
  /\ [](\A c \in Callers :
          AsksEmbedded(c) =>
            /\ nv[c].catalogRequests = 0 /\ nv[c].downloadRequests = 0
            /\ nv[c].cacheReads = 0 /\ nv[c].cacheWrites = 0
            /\ nv[c].pc \in {"new", "idle"}
            /\ nv[c].origin = "embedded"
            /\ nv[c].content = embeddedVersions[nv[c].version]
            /\ Constructed(c) => (nv[c].out = "session" /\ nv[c].err = "nil"))
  /\ [][cache' # cache =>
          \E c \in Callers :
            nv[c].pc \in {"save", "write"} /\ ~AsksEmbedded(c)]_vars

\* a session for 0.8.30 has been constructed although the catalog cannot be
\* fetched, the artifact cannot be downloaded and the cache holds a file
\* for 0.8.30
C18_Witness ==
  \E c \in Callers :
    /\ Constructed(c) /\ nv[c].version = "0.8.30" /\ nv[c].out = "session"
    /\ env.catalog # "ok" /\ env.artifact # "ok"
    /\ cache["0.8.30"].exists

\* the caller asked for a version that is not embedded and whose cache
\* file existed, and could be found, when the call started
AsksCached(c) ==
  /\ nv[c].version \in Requested /\ ~AsksEmbedded(c)
  /\ env.home /\ nv[c].before.exists

\* C19, as claimed: for a version that is not embedded but whose cache file
\* exists, artifact resolution returns the cached contents without fetching
\* the remote catalog and without downloading, so that the version
\* resolves even when the catalog cannot be fetched.
C19_AsClaimed ==
  \A c \in Callers :
    AsksCached(c) =>
      /\ nv[c].catalogRequests = 0 /\ nv[c].downloadRequests = 0
      /\ Constructed(c) =>
           (nv[c].origin = "cache" /\ nv[c].content = nv[c].before.content)

\* C20, as claimed: a cache file counts as present only if it exists and
\* is not empty: artifact resolution never takes empty contents from the
\* cache (an empty file is a miss, answered by the download).
C20_AsClaimed ==
  \A c \in Callers : nv[c].origin = "cache" => nv[c].content # ""

\* the disk, or the missing home directory, makes saveBinaryToCache fail
CacheWriteFails == ~env.home \/ env.disk \in {"read-only", "full"}

\* C21: when the artifact download succeeds but persisting it to the cache
\* fails (directory creation or file write error), the call goes on to New
\* with the downloaded bytes and returns a session; the failure of the
\* cache write is never the error of the call.
C21_CacheWriteNotFatal ==
  \A c \in Callers :
    (nv[c].origin = "download" /\ CacheWriteFails) =>
      /\ nv[c].content = RemoteBody(nv[c].filename)
      /\ nv[c].pc \in {"save", "write", "new", "idle"}
      /\ Constructed(c) => (nv[c].out = "session" /\ nv[c].err = "nil")

\* a session has been constructed from a download on a full disk, which
\* left the cache file of the version empty
C21_Witness ==
  \E c \in Callers :
    /\ Constructed(c) /\ nv[c].origin = "download" /\ nv[c].out = "session"
    /\ env.disk = "full" /\ cache[nv[c].version] = File("")

\* C22: remote failures are surfaced and never retried: a NewWithVersion
\* call makes at most one catalog request and at most one download request,
\* and when the request it made failed (transport error or a status other
\* than 200) the call has returned an error and no session, without a
\* further request.
C22_NoRetry ==
  \A c \in Callers :
    /\ nv[c].catalogRequests <= 1 /\ nv[c].downloadRequests <= 1
    /\ (nv[c].catalogRequests = 1 /\ env.catalog # "ok") =>
         /\ Constructed(c) /\ nv[c].out = "nil"
         /\ nv[c].err = "failed to fetch version list"
         /\ nv[c].downloadRequests = 0
    /\ (nv[c].downloadRequests = 1 /\ env.artifact # "ok") =>
         /\ Constructed(c) /\ nv[c].out = "nil"
         /\ nv[c].err = "failed to download solc binary"

\* one caller has failed on the catalog request; or, the catalog being
\* there, on the download request
C22_Witness ==
  \E c \in Callers :
    /\ Constructed(c) /\ nv[c].out = "nil"
    /\ nv[c].catalogRequests = 1 /\ nv[c].downloadRequests = 1
    /\ env.catalog = "ok" /\ env.artifact = "HTTP 404"

\* the caller asked, or asks, for a version the catalog does not release
AsksUnknown(c) ==
  /\ nv[c].version \in Requested /\ ~AsksEmbedded(c)
  /\ nv[c].version \notin DOMAIN Releases

\* C23: when the fetched catalog has no release for the requested version,
\* the call fails with "version not found" as soon as the catalog has been
\* read: it returns no session, makes no download request, neither reads nor
\* writes the cache, and the cache entry of the version is what it was when
\* the call began.
C23_UnknownVersion ==
  \A c \in Callers :
    (AsksUnknown(c) /\ nv[c].catalogRequests = 1 /\ env.catalog = "ok") =>
      /\ Constructed(c) /\ nv[c].out = "nil"
      /\ nv[c].err = "version not found"
      /\ nv[c].downloadRequests = 0
      /\ nv[c].cacheReads = 0 /\ nv[c].cacheWrites = 0
      /\ cache[nv[c].version] = nv[c].before

\* a caller has been refused an unknown version on a machine where a
\* download and a cache write would both have succeeded
C23_Witness ==
  \E c \in Callers :
    /\ AsksUnknown(c) /\ Constructed(c) /\ nv[c].err = "version not found"
    /\ env.catalog = "ok" /\ env.artifact = "ok"
    /\ env.home /\ env.disk = "ok" /\ ~nv[c].before.exists

\* the caller asked, or asks, for a released version that is not embedded
\* and had no cache file when the call began, on a machine where the
\* remote, the home directory and the disk are all in order
AsksUncached(c) ==
  /\ nv[c].version \in DOMAIN Releases /\ ~AsksEmbedded(c)
  /\ ~nv[c].before.exists
  /\ env.catalog = "ok" /\ env.artifact = "ok"
  /\ env.home /\ env.disk = "ok"

\* C24, as claimed: when several callers resolve at the same time the same
\* version, which is neither embedded nor yet cached, every caller that has
\* obtained bytes, from the cache file or by download, holds the complete
\* artifact, never the contents of an empty or partly written cache file,
\* and so every such call returns a session.
C24_AsClaimed ==
  \A c \in Callers :
    AsksUncached(c) =>
      /\ nv[c].origin # "none" => nv[c].content = RemoteBody(nv[c].filename)
      /\ Constructed(c) => nv[c].out = "session"

\* a License or Version call that has returned
QueryReturned(t) == Returned(t) /\ ret[t].op \in {"License", "Version"}

\* the entry point of the call is missing: License on an artifact without a
\* license function
NoEntryPoint(t) == ret[t].op = "License" /\ ~license

\* C25: License and Version never raise. No call of theirs enters the
\* engine after its context was released, and every call returns a plain
\* string and no error: the empty string, without an engine call, when the
\* entry point is missing, or when the session was found closed; the empty
\* string when the engine call failed; and otherwise the string the engine
\* gave. Version follows the pattern of License.
C25_QueriesNeverRaise ==
  /\ \A t \in Goroutines :
       pc[t] \in {"license_call", "version_call"} => ~fault
  /\ \A t \in Goroutines :
       QueryReturned(t) =>
         /\ ret[t].err = "nil"
         /\ NoEntryPoint(t) => call[t].engine = 0
         /\ call[t].afterClose => call[t].engine = 0
         /\ call[t].engine <= 1
         /\ call[t].engine = 0 =>
              /\ NoEntryPoint(t) \/ closed
              /\ ret[t].out = ""
         /\ call[t].engine = 1 =>
              ret[t].out = IF call[t].result.kind = "exception"
                           THEN "" ELSE call[t].result.text

\* a License call has returned the empty string because its engine call
\* failed, and a Version call has returned the string of the engine
C25_Witness ==
  \E t, u \in Goroutines :
    /\ QueryReturned(t) /\ ret[t].op = "License" /\ call[t].engine = 1
    /\ call[t].result.kind = "exception" /\ ret[t].out = ""
    /\ QueryReturned(u) /\ ret[u].op = "Version" /\ call[u].engine = 1
    /\ ret[u].out = "version text"

\* the errors of newBaseSolc
ConstructionErrors ==
  { "soljsonjs cannot be empty",
    "failed to initialize compiler: failed to execute soljson.js",
    "failed to initialize compiler: failed to bind version function" }

\* C26: when the construction of a session fails, on an empty artifact, on
\* an artifact the engine cannot run or on an entry point that cannot be
\* bound, the call returns no session, and every context and isolate
\* created in the attempt has been released exactly once. The empty
\* artifact is refused before an isolate or a context is created. A
\* session that is returned was fully initialized and owns its one context
\* and one isolate, unreleased.
C26_FailedConstructionReleases ==
  \A c \in Callers :
    /\ nv[c].isolates <= 1 /\ nv[c].contexts <= 1
    /\ (Constructed(c) /\ nv[c].content = "" /\ nv[c].origin # "none") =>
         /\ nv[c].err = "soljsonjs cannot be empty"
         /\ nv[c].isolates = 0 /\ nv[c].contexts = 0
    /\ (Constructed(c) /\ nv[c].origin # "none"
          /\ init(nv[c].content) # "nil") =>
         nv[c].err \in ConstructionErrors
    /\ (Constructed(c) /\ nv[c].err \in ConstructionErrors) =>
         /\ nv[c].out = "nil"
         /\ ~nv[c].ctx /\ ~nv[c].isolate
         /\ nv[c].ctxCloses = nv[c].contexts
         /\ nv[c].isolateDisposes = nv[c].isolates
    /\ (Constructed(c) /\ nv[c].out = "session") =>
         /\ nv[c].content # "" /\ init(nv[c].content) = "nil"
         /\ nv[c].ctx /\ nv[c].isolate
         /\ nv[c].contexts = 1 /\ nv[c].isolates = 1
         /\ nv[c].ctxCloses = 0 /\ nv[c].isolateDisposes = 0

\* a construction has failed in init and has released the isolate and the
\* context it had created
C26_Witness ==
  \E c \in Callers :
    /\ Constructed(c) /\ nv[c].out = "nil"
    /\ nv[c].err =
         "failed to initialize compiler: failed to bind version function"
    /\ nv[c].contexts = 1 /\ nv[c].ctxCloses = 1
    /\ nv[c].isolates = 1 /\ nv[c].isolateDisposes = 1

\* the elements of a sequence
Elements(s) == { s[i] : i \in DOMAIN s }

\* C27: GetEmbeddedVersions returns every key of the embedded table exactly
\* once, in some order: the two versions 0.8.30 and 0.8.21. getEmbeddedBinary
\* reports a version as found exactly when it is in that list, and then
\* gives its binary. No operation changes the table.
C27_EmbeddedTable ==
  /\ embeddedVersions = EmbeddedTable
  /\ versions.returned =>
       /\ Elements(versions.list) = {"0.8.30", "0.8.21"}
       /\ Elements(versions.list) = DOMAIN embeddedVersions
       /\ Len(versions.list) = Cardinality(DOMAIN embeddedVersions)
       /\ \A v \in Requested \cup Elements(versions.list) :
            /\ getEmbeddedBinary(v).exists <=> v \in Elements(versions.list)
            /\ getEmbeddedBinary(v).exists =>
                 getEmbeddedBinary(v).binary = embeddedVersions[v]

\* the table has been listed, 0.8.21 first, after a caller was given a
\* session for the embedded 0.8.30 and another downloaded 0.8.20
C27_Witness ==
  /\ versions.returned /\ versions.list = <<"0.8.21", "0.8.30">>
  /\ \E c, d \in Callers :
       /\ Constructed(c) /\ nv[c].origin = "embedded"
       /\ Constructed(d) /\ nv[d].origin = "download"

\* C28, as claimed: every session operation holds the session mutex for the
\* full duration of the call: a goroutine that is inside License, Version,
\* CompileWithOptions or Close, and is not waiting for the mutex, holds it,
\* in every marshalling of the input, in import resolution, in the engine
\* call and in the unmarshalling of the output.
C28_AsClaimed ==
  \A t \in Goroutines :
    pc[t] \notin ({"idle"} \cup LockPcs) => mu = t

\* the callback of t's compile call has called the session
CalledBack(t) == call[t].nested # "none"

\* ... with a call that goes for the mutex
Reentered(t) == CalledBack(t) /\ call[t].nestedOut = "none"

Revisit(t) ==
  /\ pc[t] = "file"
  /\ LET top == frames[t][Len(frames[t])] IN
       /\ top.i <= Len(top.imports)
       /\ resolveAbsolutePath(top.imports[top.i], top.fileName)
            \in resolvedSources[t] \cap DOMAIN sources
RevisitFile(t) ==
  LET top == frames[t][Len(frames[t])] IN
  resolveAbsolutePath(top.imports[top.i], top.fileName)
RevisitDepth(t) == frames[t][Len(frames[t])].depth + 1

\* the step changes nothing for the resolver run of t but its position:
\* no error, no callback, Sources and the visited set as they were
NoOpSuccess(t) ==
  /\ rerr'[t] = NoErr /\ pc'[t] \in {"file", "range"}
  /\ call'[t].cb = call[t].cb /\ cbPath' = cbPath
  /\ sources' = sources
  /\ resolvedSources' = resolvedSources
  /\ contextStack' = contextStack

\* the range of resolveImports yields a file that is in the visited set
RangeRevisit(t) ==
  /\ pc[t] = "range" /\ rangeLeft'[t] # rangeLeft[t]
  /\ (rangeLeft[t] \ rangeLeft'[t]) \subseteq resolvedSources[t]

\* C30, as claimed: resolveFileImports called on a file that is already in
\* the visited set returns success as a no-op, with no callback invocation
\* and no change to the sources or the visited set, at whatever depth the
\* file is reached: a back-edge of an import cycle never fails.
C30_AsClaimed ==
  [][\A t \in Goroutines :
       /\ (Revisit(t) /\ frames'[t] # frames[t]) => NoOpSuccess(t)
       /\ RangeRevisit(t) => NoOpSuccess(t)]_vars

\* C30: resolveFileImports called on a file that is already in the visited
\* set, at a depth of at most maxDepth, returns success as a no-op, with
\* no callback invocation and no change to the sources or the visited set.
\* At a depth above maxDepth the call fails with the depth error naming
\* the file, visited or not, since the depth is tested first; it still
\* invokes no callback and changes neither the sources nor the visited
\* set. A back-edge of a cycle reached at depth maxDepth + 1 so fails.
C30_VisitedNoOpWithinDepth ==
  [][\A t \in Goroutines :
       /\ (Revisit(t) /\ frames'[t] # frames[t]) =>
            IF RevisitDepth(t) <= maxDepth
            THEN NoOpSuccess(t)
            ELSE /\ rerr'[t] = Err("depth", RevisitFile(t))
                 /\ pc'[t] = "unwind"
                 /\ call'[t].cb = call[t].cb /\ cbPath' = cbPath
                 /\ sources' = sources
                 /\ resolvedSources' = resolvedSources
       /\ RangeRevisit(t) => NoOpSuccess(t)]_vars

\* the back-edge of the cycle of maxDepth + 1 files was followed at depth
\* maxDepth + 1: the call on the first file, which is in the visited set,
\* has failed with the depth error
C30_Witness ==
  \E t \in Goroutines :
    /\ rerr[t] = Err("depth", ChainFile(0))
    /\ ChainFile(0) \in resolvedSources[t]
    /\ Cardinality(resolvedSources[t]) = maxDepth + 1

(***************************************************************************)
(* Properties of the resolver run as a whole                               *)
(***************************************************************************)
\* the compile call of t has returned after a resolver run that started
\* on the Input as the caller built it
RanResolver(t) ==
  /\ CompileReturned(t) /\ call[t].steps > 0
  /\ call[t].runStart = InitialSources(world)

\* C31, as claimed: import resolution is deterministic. For a fixed input
\* and a callback that is a function of the path, any two resolver runs
\* agree on success or failure, and on success on the keys and contents of
\* Sources they hand to the compiler, in whatever order the range over
\* the initial Sources yields the keys.
C31_AsClaimed ==
  \A t, u \in Goroutines :
    (RanResolver(t) /\ RanResolver(u)) =>
      /\ (rerr[t] = NoErr) <=> (rerr[u] = NoErr)
      /\ (rerr[t] = NoErr) => call[t].arg = call[u].arg

\* the paths one simplification makes of p: a "." component dropped, or a
\* ".." dropped together with the name before it
Simpler(p) ==
  { SubSeq(p, 1, i - 1) \o SubSeq(p, i + 1, Len(p)) :
      i \in { j \in 1..Len(p) : p[j] = "." } }
  \cup
  { SubSeq(p, 1, i - 1) \o SubSeq(p, i + 2, Len(p)) :
      i \in { j \in 1..(Len(p) - 1) :
                p[j] \notin {".", ".."} /\ p[j + 1] = ".." } }

RECURSIVE Simplified(_)
\* everything simplification makes of the paths S
Simplified(S) ==
  LET N == S \cup UNION { Simpler(p) : p \in S }
  IN IF N = S THEN S ELSE Simplified(N)

\* the paths that p simplifies to and that cannot be simplified further,
\* the empty path written "."
Normal(p) ==
  { IF q = << >> THEN <<".">> ELSE q :
      q \in { r \in Simplified({p}) : Simpler(r) = {} } }

\* the components of the directory of a file
Parent(file) == SubSeq(file, 1, Len(file) - 1)

C33_AsClaimed ==
  \A t \in Goroutines :
    (pc[t] = "resolved" /\ rerr[t] # NoErr) => sources = call[t].runStart

\* the files of the resolveFileImports calls in progress, outermost first
InProgress(t) == [i \in 1..Len(frames[t]) |-> frames[t][i].fileName]

\* C34: the context stack is balanced on every exit path. While the
\* resolver runs, the stack is exactly the chain of the files whose
\* resolveFileImports call is in progress, innermost last, also while an
\* error travels up; and when resolveImports has returned, with success
\* or with any error, the stack is empty.
C34_StackBalanced ==
  \A t \in Goroutines :
    /\ pc[t] \in ResolverPcs => contextStack[t] = InProgress(t)
    /\ pc[t] = "resolved" =>
         (contextStack[t] = << >> /\ frames[t] = << >>)

\* a run has returned the error of a callback that was invoked two levels
\* down, and the stack is empty
C34_Witness ==
  \E t \in Goroutines :
    /\ pc[t] = "resolved" /\ rerr[t].kind = "import"
    /\ contextStack[t] = << >>
    /\ \E i \in 1..Len(call[t].cb) :
         call[t].cb[i].depth >= 2 /\ call[t].cb[i].path = rerr[t].file

\* the next step of t calls resolveFileImports one level down: from the
\* loop on a file that is a key of Sources, or on the file the callback
\* has just supplied
Descends(t) ==
  \/ /\ pc[t] = "file"
     /\ LET top == frames[t][Len(frames[t])] IN
          /\ top.i <= Len(top.imports)
          /\ resolveAbsolutePath(top.imports[top.i], top.fileName)
               \in DOMAIN sources
  \/ /\ pc[t] = "callback"
     /\ importCallback(world, cbPath[t]).Error = ""

\* C35: the depth limit includes 50. The call the range makes for a
\* supplied file has depth 0 and each import adds 1; a call at depth 50 is
\* accepted and a call at depth 51 fails with the depth error, and the
\* depth error arises in no other way. So the chain whose last file lies
\* at depth 50 resolves, completely, and the chain with one file more
\* fails naming the file at depth 51.
C35_DepthLimitInclusive ==
  /\ [](\A t \in Goroutines :
          /\ \A i \in 1..Len(frames[t]) : frames[t][i].depth = i - 1
          /\ Len(frames[t]) <= maxDepth + 1
          /\ pc[t] = "resolved" =>
               /\ world = ChainWorld(maxDepth + 1, {ChainFile(0)}) =>
                    (rerr[t] = NoErr /\ Complete(t))
               /\ world = ChainWorld(maxDepth + 2, {ChainFile(0)}) =>
                    rerr[t] = Err("depth", ChainFile(maxDepth + 1)))
  /\ [][\A t \in Goroutines :
          /\ (Descends(t) /\ call'[t].steps # call[t].steps) =>
               (rerr'[t].kind = "depth" <=> Len(frames[t]) > maxDepth)
          /\ (rerr[t].kind # "depth" /\ rerr'[t].kind = "depth") =>
               (Descends(t) /\ frames[t][Len(frames[t])].depth = maxDepth)
       ]_vars

\* the chain of maxDepth + 1 files has been resolved: its last file was
\* fetched for depth maxDepth and is in Sources
C35_Witness ==
  \E t \in Goroutines :
    /\ world = ChainWorld(maxDepth + 1, {ChainFile(0)})
    /\ pc[t] = "resolved" /\ rerr[t] = NoErr
    /\ ChainFile(maxDepth) \in DOMAIN sources
    /\ call[t].cb[Len(call[t].cb)].depth = maxDepth

\* C36, as claimed: the cache file of a version is written by one artifact
\* resolution only; no two callers, one after the other or at the same
\* time, both write the file of the same version.
C36_AsClaimed ==
  \A c, d \in Callers :
    (c # d /\ nv[c].version = nv[d].version) =>
      ~(nv[c].cacheWrites >= 1 /\ nv[d].cacheWrites >= 1)

\* C36, corrected: a resolution writes the cache file of its version at
\* most once, and only if the file did not exist when the resolution
\* began; the cache changes in no other step. So a resolution that begins
\* after the file was written leaves it alone.
C36_WritesOnlyUnseen ==
  /\ [](\A c \in Callers :
          /\ nv[c].cacheWrites <= 1
          /\ nv[c].cacheWrites >= 1 => ~nv[c].before.exists)
  /\ [][\A v \in DOMAIN cache :
          cache'[v] # cache[v] =>
            \E c \in Callers :
              /\ nv[c].version = v /\ ~nv[c].before.exists
              /\ nv[c].pc \in {"save", "write"}
              /\ nv'[c] # nv[c]
       ]_vars

\* one caller has downloaded and written the file; another, which began
\* when the file was there, has read it and returned a session without
\* writing
C36_Witness ==
  \E c, d \in Callers :
    /\ c # d /\ nv[c].version = nv[d].version
    /\ Constructed(d) /\ nv[d].cacheWrites = 1
    /\ nv[c].before = File(RemoteBody(nv[c].filename))
    /\ Constructed(c) /\ nv[c].out = "session" /\ nv[c].origin = "cache"
    /\ nv[c].cacheWrites = 0
    /\ cache[nv[c].version] = nv[c].before

\* caller d has downloaded the version that c asks for and its cache
\* write succeeded, and nobody but c is at work
Stored(c, d) ==
  /\ d # c /\ nv[d].version = nv[c].version
  /\ Constructed(d) /\ nv[d].origin = "download"
  /\ nv[d].cacheWrites = 1 /\ env.disk = "ok"
  /\ \A e \in Callers \ {c} : nv[e].pc = "idle"

\* C37: cache round trip. After a version was downloaded and its cache
\* write succeeded, a later resolution of the same version, running alone,
\* reads from the cache the very bytes that were downloaded and asks for
\* no download; and bytes taken from the cache never come with a download
\* request or a cache write of the same call.
C37_CacheRoundTrip ==
  /\ [](\A c \in Callers :
          nv[c].origin = "cache" =>
            (nv[c].downloadRequests = 0 /\ nv[c].cacheWrites = 0))
  /\ [][\A c, d \in Callers :
          (Stored(c, d) /\ nv[c].pc = "cache_read" /\ nv'[c] # nv[c]) =>
            /\ nv'[c].origin = "cache"
            /\ nv'[c].content = nv[d].content
            /\ nv'[c].content = cache[nv[c].version].content
            /\ nv'[c].downloadRequests = 0
            /\ nv'[c].pc = "new"
       ]_vars

\* the second resolution has returned a session made from the cached
\* bytes, which are the bytes the first one downloaded
C37_Witness ==
  \E c, d \in Callers :
    /\ Stored(c, d) /\ Constructed(c)
    /\ nv[c].origin = "cache" /\ nv[c].content = nv[d].content
    /\ nv[c].content = RemoteBody(nv[c].filename)
    /\ nv[c].downloadRequests = 0 /\ nv[c].out = "session"

\* the Solc that the call of c returned compares equal to nil: an
\* interface value is nil only if it has no dynamic type
IsNil(c) == nv[c].typ = ""

\* C38, as claimed: when NewWithVersion, or the New it ends in, returns a
\* non-nil error, the Solc it returns compares equal to nil.
C38_AsClaimed ==
  \A c \in Callers :
    (Constructed(c) /\ nv[c].err # "nil") => IsNil(c)

\* C39: liveness of a shared session. Every call that a goroutine has
\* started eventually returns, and whenever no call is in progress the
\* mutex is free: every exit path, the error returns included, has
\* released it.
C39_EveryCallReturns ==
  /\ []((\A t \in Goroutines : pc[t] = "idle") => mu = 0)
  /\ \A t \in Goroutines : (pc[t] # "idle") ~> (pc[t] = "idle")

\* two calls have returned, one of them with an error reported under the
\* lock, and the mutex is free
C39_Witness ==
  /\ \A t \in Goroutines : pc[t] = "idle"
  /\ mu = 0
  /\ \E t, u \in Goroutines :
       /\ t # u
       /\ ret[t].op = "Compile" /\ ret[t].err = "compiler has been closed"
       /\ ret[u].op = "Close"

\* the next step of t reads the Sources map: json.Marshal(input) before
\* the mutex is taken, in a call with an ImportCallback
ReadsSources(t) == pc[t] = "marshal" /\ options[t]

\* the next step of u inserts into the Sources map: its resolver stores
\* the file that the ImportCallback has supplied
InsertsSources(u) ==
  /\ pc[u] = "callback" /\ options[u]
  /\ importCallback(world, cbPath[u]).Error = ""

\* C40, as claimed: two goroutines that call CompileWithOptions on the
\* same session with the same input and an ImportCallback never access the
\* input's Sources map at the same time: no state is reached in which one
\* call is about to read the map for marshalling while the resolver of the
\* other is about to insert into it.
C40_AsClaimed ==
  \A t, u \in Goroutines :
    t # u => ~(ReadsSources(t) /\ InsertsSources(u))

====
